---- MODULE Spec2Model ----
(***************************************************************************)
(* Model of the RAG prototype's chunker (backend/app/services/chunking.py), *)
(* of the vector store's search (backend/app/core/vector_store.py), of the *)
(* LLM client (backend/app/core/llm_client.py) and of the query pipeline   *)
(* (backend/app/core/rag_pipeline.py), which calls the search and the LLM  *)
(* client while the datasets table changes under it, and of the batch      *)
(* evaluation (backend/app/services/evaluation.py), which calls a pipeline *)
(* it is given.                                                            *)
(*                                                                         *)
(* A text is a sequence of one-character strings.  The chunker is a        *)
(* program-counter machine: one action per function prologue and one per   *)
(* loop iteration.  The same loop bodies, iterated by recursive operators, *)
(* give the functions' results as values (chunk_by_characters,             *)
(* chunk_by_sentences, chunk_text).                                        *)
(***************************************************************************)
EXTENDS Integers, Sequences, FiniteSets, TLC

VARIABLES
    \* ---- chunker ----
    text, chunk_size, chunk_overlap, strategy,   \* arguments of chunk_text
    pc,                                          \* position in the chunker
    start, chunks, chunk_index,                  \* locals of both strategies
    sentences, sent_i, current_chunk, char_position, \* locals of chunk_by_sentences
    warned,                                      \* logger.warning was issued
    result,                                      \* the returned list
    \* ---- vector store ----
    collection,                                  \* documents held by the index
    top_k, enabled_datasets, min_score,          \* arguments of search
    spc,                                         \* position in search
    query_calls,                                 \* calls made to collection.query
    where_filter,                                \* local of search
    results, res_i, documents,                   \* locals of search
    search_result,                               \* the returned list
    \* ---- LLM client ----
    model, prompt, temperature, max_tokens,      \* arguments of generate
    lpc,                                         \* position in generate
    api_calls,                                   \* calls made to chat.completions.create
    api_response,                                \* what the API answered
    llm_response,                                \* the returned dictionary
    \* ---- RAG pipeline ----
    registry,                                    \* the datasets table, newest first
    q_top_k, q_enabled_datasets, q_min_score, q_model, \* arguments of query
    ppc,                                         \* position in query
    all_datasets,                                \* what db.list_datasets() returned
    scope,                                       \* enabled_datasets once resolved
    calls,                                       \* collaborators invoked, in order
    steps,                                       \* the trace
    retrieved_chunks, full_prompt,               \* locals of query
    response,                                    \* the returned dictionary
    raised,                                      \* the collaborator whose error left query
    registry_ops,                                \* registry writes made during the query
    \* ---- evaluation service ----
    test_questions,                              \* argument of evaluate_batch
    epc,                                         \* position in evaluate_batch
    eval_i,                                      \* index of the question in the loop
    invocations,                                 \* questions given to rag_pipeline.query
    pipeline_response,                           \* what rag_pipeline.query returned
    eval_results,                                \* the local list results
    batch,                                       \* the returned dictionary
    eval_raised                                  \* an error of the pipeline left evaluate_batch

chunk_vars == <<text, chunk_size, chunk_overlap, strategy, pc, start, chunks,
                chunk_index, sentences, sent_i, current_chunk, char_position,
                warned, result>>

search_vars == <<collection, top_k, enabled_datasets, min_score, spc,
                 query_calls, where_filter, results, res_i, documents,
                 search_result>>

llm_vars == <<model, prompt, temperature, max_tokens, lpc, api_calls,
              api_response, llm_response>>

pipe_vars == <<registry, q_top_k, q_enabled_datasets, q_min_score, q_model,
               ppc, all_datasets, scope, calls, steps, retrieved_chunks,
               full_prompt, response, raised, registry_ops>>

eval_vars == <<test_questions, epc, eval_i, invocations, pipeline_response,
               eval_results, batch, eval_raised>>

vars == <<chunk_vars, search_vars, llm_vars, pipe_vars, eval_vars>>

----------------------------------------------------------------------------
(* Bounds *)

MaxLen == 4          \* longest enumerated text
MaxSize == 3         \* largest enumerated chunk_size
MaxOverlap == 3      \* largest enumerated chunk_overlap
MaxChunks == 6       \* a run is followed until it holds this many chunks
MaxBack == 3         \* a run is followed until start < -MaxBack
MaxDocs == 3         \* most documents held by the index
MaxTopK == 2         \* largest enumerated top_k
MaxScope == 2        \* longest enumerated enabled_datasets list
MaxRegistryOps == 1  \* most registry writes followed during one query
MaxSentenceSize == 6    \* largest chunk_size tried on the sentence texts
MaxSentenceOverlap == 2 \* largest chunk_overlap tried on the sentence texts
MaxQuestions == 3    \* longest enumerated test_questions list
MaxKeywords == 2     \* longest enumerated expected_keywords list

----------------------------------------------------------------------------
(* Strings *)

Alphabet == {"a", "b", " ", "."}

Whitespace == {" "}

SentenceEnd == {".", "!", "?"}

RECURSIVE TextsOfLen(_)
TextsOfLen(n) ==
    IF n = 0 THEN {<<>>}
    ELSE {Append(t, c) : t \in TextsOfLen(n - 1), c \in Alphabet}

Texts == UNION {TextsOfLen(n) : n \in 0..MaxLen}

Abcdefghij == <<"a", "b", "c", "d", "e", "f", "g", "h", "i", "j">>

\* Texts of several sentences: "a. b. a", "ab. ab." and "a.  bb. a. b".
SentenceTexts ==
    {<<"a", ".", " ", "b", ".", " ", "a">>,
     <<"a", "b", ".", " ", "a", "b", ".">>,
     <<"a", ".", " ", " ", "b", "b", ".", " ", "a", ".", " ", "b">>}

Strategies == {"characters", "sentences", "paragraphs"}

\* Python's index normalisation in a slice: negative counts from the end,
\* then clamp into 0..n.
SliceIndex(i, n) ==
    IF i < 0 THEN (IF i + n < 0 THEN 0 ELSE i + n)
    ELSE IF i > n THEN n ELSE i

\* t[a:b]
Slice(t, a, b) ==
    LET lo == SliceIndex(a, Len(t))
        hi == SliceIndex(b, Len(t))
    IN  IF lo >= hi THEN <<>> ELSE SubSeq(t, lo + 1, hi)

\* t[a:]
SliceFrom(t, a) == Slice(t, a, Len(t))

\* str.strip()
RECURSIVE LStrip(_)
LStrip(t) ==
    IF t = <<>> THEN <<>>
    ELSE IF Head(t) \in Whitespace THEN LStrip(Tail(t)) ELSE t

RECURSIVE RStrip(_)
RStrip(t) ==
    IF t = <<>> THEN <<>>
    ELSE IF t[Len(t)] \in Whitespace THEN RStrip(SubSeq(t, 1, Len(t) - 1)) ELSE t

Strip(t) == RStrip(LStrip(t))

\* first index >= i of t that is not whitespace, Len(t)+1 if none
RECURSIVE SkipSpace(_, _)
SkipSpace(t, i) ==
    IF i > Len(t) THEN i
    ELSE IF t[i] \in Whitespace THEN SkipSpace(t, i + 1) ELSE i

\* re.split(r'(?<=[.!?])\s+', t): a separator is a maximal run of whitespace
\* that directly follows '.', '!' or '?'.
RECURSIVE SplitFrom(_, _, _, _)
SplitFrom(t, i, cur, acc) ==
    IF i > Len(t) THEN Append(acc, cur)
    ELSE IF t[i] \in Whitespace /\ i > 1 /\ t[i - 1] \in SentenceEnd
         THEN SplitFrom(t, SkipSpace(t, i), <<>>, Append(acc, cur))
         ELSE SplitFrom(t, i + 1, Append(cur, t[i]), acc)

ReSplit(t) == SplitFrom(t, 1, <<>>, <<>>)

\* [s.strip() for s in pieces if s.strip()]
RECURSIVE StripNonEmpty(_)
StripNonEmpty(pieces) ==
    IF pieces = <<>> THEN <<>>
    ELSE LET s == Strip(Head(pieces))
         IN  IF s = <<>> THEN StripNonEmpty(Tail(pieces))
             ELSE <<s>> \o StripNonEmpty(Tail(pieces))

SplitSentences(t) == StripNonEmpty(ReSplit(t))

----------------------------------------------------------------------------
(* chunk_by_characters *)

Chunk(t, idx, s, e, n) ==
    [text |-> t, chunk_index |-> idx, start_char |-> s, end_char |-> e,
     char_count |-> n]

\* CharBody with the window advanced by chunk_size, the overlap forgotten.
CharBody_AdvanceByEnd(t, size, overlap, st) ==
    LET end == st.start + size
        window == Slice(t, st.start, end)
        emit == Strip(window) # <<>>
        nstart == end
    IN  [start |-> nstart,
         chunks |-> IF emit
                    THEN Append(st.chunks,
                                Chunk(window, st.chunk_index, st.start, end,
                                      Len(window)))
                    ELSE st.chunks,
         chunk_index |-> IF emit THEN st.chunk_index + 1 ELSE st.chunk_index,
         brk |-> nstart >= Len(t)]

\* CharBody with chunk_index counting windows, skipped ones included.
CharBody_IndexPerWindow(t, size, overlap, st) ==
    LET end == st.start + size
        window == Slice(t, st.start, end)
        emit == Strip(window) # <<>>
        nstart == end - overlap
    IN  [start |-> nstart,
         chunks |-> IF emit
                    THEN Append(st.chunks,
                                Chunk(window, st.chunk_index, st.start, end,
                                      Len(window)))
                    ELSE st.chunks,
         chunk_index |-> st.chunk_index + 1,
         brk |-> nstart >= Len(t)]

\* CharBody sliding the window by one character.
CharBody_SlideByOne(t, size, overlap, st) ==
    LET end == st.start + size
        window == Slice(t, st.start, end)
        emit == Strip(window) # <<>>
        nstart == st.start + 1
    IN  [start |-> nstart,
         chunks |-> IF emit
                    THEN Append(st.chunks,
                                Chunk(window, st.chunk_index, st.start, end,
                                      Len(window)))
                    ELSE st.chunks,
         chunk_index |-> IF emit THEN st.chunk_index + 1 ELSE st.chunk_index,
         brk |-> nstart >= Len(t)]

\* CharBody with the walk ended by a whitespace-only window.
CharBody_StopOnBlank(t, size, overlap, st) ==
    LET end == st.start + size
        window == Slice(t, st.start, end)
        emit == Strip(window) # <<>>
        nstart == end - overlap
    IN  [start |-> nstart,
         chunks |-> IF emit
                    THEN Append(st.chunks,
                                Chunk(window, st.chunk_index, st.start, end,
                                      Len(window)))
                    ELSE st.chunks,
         chunk_index |-> IF emit THEN st.chunk_index + 1 ELSE st.chunk_index,
         brk |-> nstart >= Len(t) \/ ~emit]

\* One iteration of the while loop: st = [start, chunks, chunk_index].
\* brk is the outcome of the test "start >= len(text)" after advancing.
CharBody(t, size, overlap, st) ==
    LET end == st.start + size
        window == Slice(t, st.start, end)
        emit == Strip(window) # <<>>
        nstart == end - overlap
    IN  [start |-> nstart,
         chunks |-> IF emit
                    THEN Append(st.chunks,
                                Chunk(window, st.chunk_index, st.start, end,
                                      Len(window)))
                    ELSE st.chunks,
         chunk_index |-> IF emit THEN st.chunk_index + 1 ELSE st.chunk_index,
         brk |-> nstart >= Len(t)]

CharInit == [start |-> 0, chunks |-> <<>>, chunk_index |-> 0]


\* What a call yields: a returned list, or no return at all.
Returns(v) == [returns |-> TRUE, value |-> v]

NoReturn == [returns |-> FALSE, value |-> <<>>]

\* The while loop run to its end.  With chunk_size - chunk_overlap >= 1 the
\* k-th iteration starts at (k-1)*(chunk_size - chunk_overlap), so the loop
\* ends within len(text) iterations; a run that needs more never ends.
RECURSIVE CharRun(_, _, _, _, _)
CharRun(t, size, overlap, st, fuel) ==
    IF ~(st.start < Len(t)) THEN Returns(st.chunks)
    ELSE IF fuel = 0 THEN NoReturn
    ELSE LET n == CharBody(t, size, overlap, st)
         IN  IF n.brk THEN Returns(n.chunks)
             ELSE CharRun(t, size, overlap,
                          [start |-> n.start, chunks |-> n.chunks,
                           chunk_index |-> n.chunk_index], fuel - 1)

chunk_by_characters(t, size, overlap) ==
    IF t = <<>> THEN Returns(<<>>)
    ELSE CharRun(t, size, overlap, CharInit, Len(t) + 1)

----------------------------------------------------------------------------
(* chunk_by_sentences *)

\* The test closing the running chunk as soon as the size is reached.
ClosesChunk_AtEqual(cur, sentence, size) ==
    cur # <<>> /\ Len(cur) + Len(sentence) + 1 >= size

\* The test that closes the running chunk before a sentence is placed.
ClosesChunk(cur, sentence, size) ==
    cur # <<>> /\ Len(cur) + Len(sentence) + 1 > size

\* The same iteration, seeding the next buffer from every closed buffer,
\* however short.
SentBody_SeedAlways(size, overlap, st, sentence) ==
    LET cur == st.current_chunk
        close == ClosesChunk(cur, sentence, size)
    IN  [chunks |-> IF close
                    THEN Append(st.chunks,
                                Chunk(Strip(cur), st.chunk_index,
                                      st.char_position - Len(cur),
                                      st.char_position, Len(Strip(cur))))
                    ELSE st.chunks,
         chunk_index |-> IF close THEN st.chunk_index + 1 ELSE st.chunk_index,
         current_chunk |->
             IF close
             THEN IF overlap > 0
                  THEN SliceFrom(cur, -overlap) \o <<" ">> \o sentence
                  ELSE sentence
             ELSE IF cur # <<>> THEN cur \o <<" ">> \o sentence
                  ELSE sentence,
         char_position |-> st.char_position + Len(sentence) + 1]

\* One iteration of the for loop:
\* st = [chunks, chunk_index, current_chunk, char_position].
SentBody(size, overlap, st, sentence) ==
    LET cur == st.current_chunk
        close == ClosesChunk(cur, sentence, size)
    IN  [chunks |-> IF close
                    THEN Append(st.chunks,
                                Chunk(Strip(cur), st.chunk_index,
                                      st.char_position - Len(cur),
                                      st.char_position, Len(Strip(cur))))
                    ELSE st.chunks,
         chunk_index |-> IF close THEN st.chunk_index + 1 ELSE st.chunk_index,
         current_chunk |->
             IF close
             THEN IF overlap > 0 /\ Len(cur) > overlap
                  THEN SliceFrom(cur, -overlap) \o <<" ">> \o sentence
                  ELSE sentence
             ELSE IF cur # <<>> THEN cur \o <<" ">> \o sentence
                  ELSE sentence,
         char_position |-> st.char_position + Len(sentence) + 1]

SentInit ==
    [chunks |-> <<>>, chunk_index |-> 0, current_chunk |-> <<>>,
     char_position |-> 0]

\* The last chunk added only when it holds more than one character.
SentLast_SkipSingle(st) ==
    IF Len(Strip(st.current_chunk)) > 1
    THEN Append(st.chunks,
                Chunk(Strip(st.current_chunk), st.chunk_index,
                      st.char_position - Len(st.current_chunk),
                      st.char_position, Len(Strip(st.current_chunk))))
    ELSE st.chunks

\* "Add the last chunk if not empty"
SentLast(st) ==
    IF Strip(st.current_chunk) # <<>>
    THEN Append(st.chunks,
                Chunk(Strip(st.current_chunk), st.chunk_index,
                      st.char_position - Len(st.current_chunk),
                      st.char_position, Len(Strip(st.current_chunk))))
    ELSE st.chunks

RECURSIVE SentRun(_, _, _, _)
SentRun(size, overlap, st, rest) ==
    IF rest = <<>> THEN st
    ELSE SentRun(size, overlap, SentBody(size, overlap, st, Head(rest)),
                 Tail(rest))

chunk_by_sentences(t, size, overlap) ==
    IF t = <<>> THEN Returns(<<>>)
    ELSE IF SplitSentences(t) = <<>>
         THEN chunk_by_characters(t, size, overlap)
         ELSE Returns(SentLast(SentRun(size, overlap, SentInit,
                                       SplitSentences(t))))

----------------------------------------------------------------------------
(* chunk_text *)

\* Dispatch with an unknown strategy name rejected.
Dispatch_RaiseUnknown(strat) ==
    IF strat = "characters" THEN "chunk_by_characters"
    ELSE IF strat = "sentences" THEN "chunk_by_sentences"
    ELSE "error"

\* Dispatch with an unknown strategy name sent to the character strategy.
Dispatch_UnknownToCharacters(strat) ==
    IF strat = "characters" THEN "chunk_by_characters"
    ELSE IF strat = "sentences" THEN "chunk_by_sentences"
    ELSE "chunk_by_characters"

\* The function chunk_text hands the call to.
Dispatch(strat) ==
    IF strat = "characters" THEN "chunk_by_characters"
    ELSE IF strat = "sentences" THEN "chunk_by_sentences"
    ELSE "chunk_by_sentences"

chunk_text(t, size, overlap, strat) ==
    IF Dispatch(strat) = "chunk_by_characters"
    THEN chunk_by_characters(t, size, overlap)
    ELSE chunk_by_sentences(t, size, overlap)

----------------------------------------------------------------------------
(* The chunker as a machine *)

Sizes == 0..MaxSize

Overlaps == (-1)..MaxOverlap

\* The evaluation service is not running.
EvalIdle ==
    /\ test_questions = <<>>
    /\ epc = "idle"
    /\ eval_i = 0
    /\ invocations = <<>>
    /\ pipeline_response = [answer |-> <<>>, total_latency_ms |-> 0]
    /\ eval_results = <<>>
    /\ batch = [returned |-> FALSE, total_questions |-> 0,
                avg_keyword_coverage |-> 0, avg_latency_ms |-> 0,
                results |-> <<>>]
    /\ eval_raised = FALSE

\* The search variables, at rest.
SearchIdle ==
    /\ collection = <<>>
    /\ top_k = 1
    /\ enabled_datasets = [is_none |-> TRUE, ids |-> <<>>]
    /\ min_score = 0
    /\ spc = "idle"
    /\ query_calls = <<>>
    /\ where_filter = [op |-> "none", ids |-> <<>>]
    /\ results = <<>>
    /\ res_i = 0
    /\ documents = <<>>
    /\ search_result = <<>>

\* The LLM client variables, at rest.
LlmIdle ==
    /\ model = ""
    /\ prompt = <<>>
    /\ temperature = 0
    /\ max_tokens = 0
    /\ lpc = "idle"
    /\ api_calls = <<>>
    /\ api_response = [text |-> "", prompt_tokens |-> 0,
                       completion_tokens |-> 0, total_tokens |-> 0]
    /\ llm_response = [text |-> "", prompt_tokens |-> 0,
                       completion_tokens |-> 0, total_tokens |-> 0,
                       cost |-> 0, model |-> "", temperature |-> 0]

\* The pipeline variables, at rest.
PipeIdle ==
    /\ registry = <<>>
    /\ q_top_k = 1
    /\ q_enabled_datasets = [is_none |-> TRUE, ids |-> <<>>]
    /\ q_min_score = 0
    /\ q_model = ""
    /\ ppc = "idle"
    /\ all_datasets = <<>>
    /\ scope = [is_none |-> TRUE, ids |-> <<>>]
    /\ calls = <<>>
    /\ steps = <<>>
    /\ retrieved_chunks = <<>>
    /\ full_prompt = [retrieved_chunks |-> <<>>, user_query |-> ""]
    /\ response = [returned |-> FALSE, answer |-> "", steps |-> <<>>,
                   full_prompt |-> [retrieved_chunks |-> <<>>,
                                    user_query |-> ""]]
    /\ raised = ""
    /\ registry_ops = 0

\* A call chunk_text(text, chunk_size, chunk_overlap, strategy) is pending.
InitChunk ==
    /\ \/ /\ text \in Texts
          /\ chunk_size \in Sizes
          /\ chunk_overlap \in Overlaps
          /\ strategy \in Strategies
       \/ /\ text = Abcdefghij
          /\ chunk_size = 4
          /\ chunk_overlap = 1
          /\ strategy \in Strategies
       \/ /\ text \in SentenceTexts
          /\ chunk_size \in 1..MaxSentenceSize
          /\ chunk_overlap \in 0..MaxSentenceOverlap
          /\ strategy = "sentences"
    /\ pc = "chunk_text"
    /\ start = 0
    /\ chunks = <<>>
    /\ chunk_index = 0
    /\ sentences = <<>>
    /\ sent_i = 0
    /\ current_chunk = <<>>
    /\ char_position = 0
    /\ warned = FALSE
    /\ result = <<>>
    /\ SearchIdle
    /\ LlmIdle
    /\ PipeIdle
    /\ EvalIdle

\* chunk_text: choose the strategy's function.
ChunkText ==
    /\ pc = "chunk_text"
    /\ pc' = Dispatch(strategy)
    /\ warned' = (strategy \notin {"characters", "sentences"})
    /\ UNCHANGED <<text, chunk_size, chunk_overlap, strategy, start, chunks,
                   chunk_index, sentences, sent_i, current_chunk,
                   char_position, result>>
    /\ UNCHANGED <<search_vars, llm_vars, pipe_vars, eval_vars>>

\* chunk_by_characters up to the loop.
ChunkByCharactersEnter ==
    /\ pc = "chunk_by_characters"
    /\ IF text = <<>>
       THEN /\ result' = <<>>
            /\ pc' = "done"
            /\ UNCHANGED <<start, chunks, chunk_index>>
       ELSE /\ start' = CharInit.start
            /\ chunks' = CharInit.chunks
            /\ chunk_index' = CharInit.chunk_index
            /\ pc' = "char_loop"
            /\ UNCHANGED result
    /\ UNCHANGED <<text, chunk_size, chunk_overlap, strategy, sentences,
                   sent_i, current_chunk, char_position, warned>>
    /\ UNCHANGED <<search_vars, llm_vars, pipe_vars, eval_vars>>

\* The run has left the part of the state space that is followed.
OutOfBounds == Len(chunks) >= MaxChunks \/ start < -MaxBack

\* The test of the while condition.
CharLoop ==
    /\ pc = "char_loop"
    /\ ~OutOfBounds
    /\ IF start < Len(text)
       THEN pc' = "char_body" /\ UNCHANGED result
       ELSE pc' = "done" /\ result' = chunks
    /\ UNCHANGED <<text, chunk_size, chunk_overlap, strategy, start, chunks,
                   chunk_index, sentences, sent_i, current_chunk,
                   char_position, warned>>
    /\ UNCHANGED <<search_vars, llm_vars, pipe_vars, eval_vars>>

\* One iteration of the while loop; the break leads to the return.
CharLoopBody ==
    /\ pc = "char_body"
    /\ LET n == CharBody(text, chunk_size, chunk_overlap,
                         [start |-> start, chunks |-> chunks,
                          chunk_index |-> chunk_index])
       IN  /\ start' = n.start
           /\ chunks' = n.chunks
           /\ chunk_index' = n.chunk_index
           /\ IF n.brk
              THEN pc' = "done" /\ result' = n.chunks
              ELSE pc' = "char_loop" /\ UNCHANGED result
    /\ UNCHANGED <<text, chunk_size, chunk_overlap, strategy, sentences,
                   sent_i, current_chunk, char_position, warned>>
    /\ UNCHANGED <<search_vars, llm_vars, pipe_vars, eval_vars>>

\* The loop is still running when the run leaves the bounds.
Abandon ==
    /\ pc = "char_loop"
    /\ OutOfBounds
    /\ pc' = "capped"
    /\ UNCHANGED <<text, chunk_size, chunk_overlap, strategy, start, chunks,
                   chunk_index, sentences, sent_i, current_chunk,
                   char_position, warned, result>>
    /\ UNCHANGED <<search_vars, llm_vars, pipe_vars, eval_vars>>

\* some '.', '!' or '?' of t is followed by whitespace
HasBoundary(t) ==
    \E i \in 1..(Len(t) - 1) : t[i] \in SentenceEnd /\ t[i + 1] \in Whitespace

AllWhitespace(t) == \A i \in 1..Len(t) : t[i] \in Whitespace

\* ChunkBySentencesEnter with the fallback taken when the text has no
\* sentence boundary.
ChunkBySentencesEnter_FallbackNoBoundary ==
    /\ pc = "chunk_by_sentences"
    /\ IF text = <<>>
       THEN /\ result' = <<>>
            /\ pc' = "done"
            /\ UNCHANGED <<sentences, sent_i, chunks, chunk_index,
                           current_chunk, char_position>>
       ELSE /\ sentences' = SplitSentences(text)
            /\ IF ~HasBoundary(text)
               THEN /\ pc' = "chunk_by_characters"
                    /\ UNCHANGED <<sent_i, chunks, chunk_index, current_chunk,
                                   char_position>>
               ELSE /\ chunks' = SentInit.chunks
                    /\ chunk_index' = SentInit.chunk_index
                    /\ current_chunk' = SentInit.current_chunk
                    /\ char_position' = SentInit.char_position
                    /\ sent_i' = 1
                    /\ pc' = "sent_loop"
            /\ UNCHANGED result
    /\ UNCHANGED <<text, chunk_size, chunk_overlap, strategy, start, warned>>
    /\ UNCHANGED <<search_vars, llm_vars, pipe_vars, eval_vars>>

\* chunk_by_sentences up to the loop, the fallback included.
ChunkBySentencesEnter ==
    /\ pc = "chunk_by_sentences"
    /\ IF text = <<>>
       THEN /\ result' = <<>>
            /\ pc' = "done"
            /\ UNCHANGED <<sentences, sent_i, chunks, chunk_index,
                           current_chunk, char_position>>
       ELSE /\ sentences' = SplitSentences(text)
            /\ IF sentences' = <<>>
               THEN /\ pc' = "chunk_by_characters"
                    /\ UNCHANGED <<sent_i, chunks, chunk_index, current_chunk,
                                   char_position>>
               ELSE /\ chunks' = SentInit.chunks
                    /\ chunk_index' = SentInit.chunk_index
                    /\ current_chunk' = SentInit.current_chunk
                    /\ char_position' = SentInit.char_position
                    /\ sent_i' = 1
                    /\ pc' = "sent_loop"
            /\ UNCHANGED result
    /\ UNCHANGED <<text, chunk_size, chunk_overlap, strategy, start, warned>>
    /\ UNCHANGED <<search_vars, llm_vars, pipe_vars, eval_vars>>

\* One iteration of the for loop over the sentences.
SentLoop ==
    /\ pc = "sent_loop"
    /\ sent_i <= Len(sentences)
    /\ LET n == SentBody(chunk_size, chunk_overlap,
                         [chunks |-> chunks, chunk_index |-> chunk_index,
                          current_chunk |-> current_chunk,
                          char_position |-> char_position],
                         sentences[sent_i])
       IN  /\ chunks' = n.chunks
           /\ chunk_index' = n.chunk_index
           /\ current_chunk' = n.current_chunk
           /\ char_position' = n.char_position
    /\ sent_i' = sent_i + 1
    /\ UNCHANGED <<text, chunk_size, chunk_overlap, strategy, pc, start,
                   sentences, warned, result>>
    /\ UNCHANGED <<search_vars, llm_vars, pipe_vars, eval_vars>>

\* After the loop: the last chunk, and the return.
SentFinish ==
    /\ pc = "sent_loop"
    /\ sent_i > Len(sentences)
    /\ chunks' = SentLast([chunks |-> chunks, chunk_index |-> chunk_index,
                           current_chunk |-> current_chunk,
                           char_position |-> char_position])
    /\ result' = chunks'
    /\ pc' = "done"
    /\ UNCHANGED <<text, chunk_size, chunk_overlap, strategy, start,
                   chunk_index, sentences, sent_i, current_chunk,
                   char_position, warned>>
    /\ UNCHANGED <<search_vars, llm_vars, pipe_vars, eval_vars>>

NextChunk ==
    \/ ChunkText
    \/ ChunkByCharactersEnter
    \/ CharLoop
    \/ CharLoopBody
    \/ Abandon
    \/ ChunkBySentencesEnter
    \/ SentLoop
    \/ SentFinish

SpecChunk == InitChunk /\ [][NextChunk]_vars

\* The interpreter keeps executing a call that can take a step.
FairSpecChunk == SpecChunk /\ WF_vars(NextChunk)

\* chunk_text called with strategy = "characters": the calls that reach
\* chunk_by_characters directly.
InitCharacters == InitChunk /\ strategy = "characters"

NextCharacters ==
    \/ ChunkText
    \/ ChunkByCharactersEnter
    \/ CharLoop
    \/ CharLoopBody
    \/ Abandon

FairSpecCharacters ==
    InitCharacters /\ [][NextCharacters]_vars /\ WF_vars(NextCharacters)

----------------------------------------------------------------------------
(* VectorStore.search *)

DatasetIds == {"ds1", "ds2", "ds3"}

\* Identifiers a caller scopes a search to.
ScopeIds == {"ds1", "ds2"}

\* L2 distances reported by the index, in tenths: 0.0, 1.0, 2.0.
Distances == {0, 10, 20}

\* min_score and similarity are in units of 1/200: -1.0, 0.0, 0.5, 1.0.
MinScores == {-200, 0, 100, 200}

DocIds == <<"d1", "d2", "d3", "d4", "d5">>

\* An optional list: None, or a list.
None == [is_none |-> TRUE, ids |-> <<>>]

Some(ids) == [is_none |-> FALSE, ids |-> ids]

RECURSIVE SeqsOfLen(_, _)
SeqsOfLen(S, n) ==
    IF n = 0 THEN {<<>>}
    ELSE {Append(q, x) : q \in SeqsOfLen(S, n - 1), x \in S}

SeqsUpTo(S, n) == UNION {SeqsOfLen(S, k) : k \in 0..n}

\* The documents of an index holding n documents: the i-th added has the
\* i-th id; its distance is the one to the query embedding of the search.
Collections(n) ==
    {[i \in 1..n |-> [id |-> DocIds[i], text |-> <<"text", DocIds[i]>>,
                      metadata |-> [dataset_id |-> ds[i]],
                      distance |-> dist[i]]] :
        ds \in [1..n -> DatasetIds], dist \in [1..n -> Distances]}

\* The filter given to collection.query as where=.
NoFilter == [op |-> "none", ids |-> <<>>]

EqFilter(id) == [op |-> "eq", ids |-> <<id>>]

InFilter(ids) == [op |-> "in", ids |-> ids]

\* The index's reading of a filter.
Matches(doc, where) ==
    \/ where.op = "none"
    \/ /\ where.op = "eq"
       /\ doc.metadata.dataset_id = where.ids[1]
    \/ /\ where.op = "in"
       /\ \E k \in 1..Len(where.ids) : doc.metadata.dataset_id = where.ids[k]

RECURSIVE SelectMatching(_, _)
SelectMatching(docs, where) ==
    IF docs = <<>> THEN <<>>
    ELSE IF Matches(Head(docs), where)
         THEN <<Head(docs)>> \o SelectMatching(Tail(docs), where)
         ELSE SelectMatching(Tail(docs), where)

\* position of the nearest document of a non-empty list (the first of equals)
NearestPos(docs) ==
    CHOOSE i \in 1..Len(docs) :
        /\ \A j \in 1..Len(docs) : docs[i].distance <= docs[j].distance
        /\ \A j \in 1..(i - 1) : docs[j].distance > docs[i].distance

RECURSIVE NearestFirst(_)
NearestFirst(docs) ==
    IF docs = <<>> THEN <<>>
    ELSE LET i == NearestPos(docs)
         IN  <<docs[i]>> \o
             NearestFirst(SubSeq(docs, 1, i - 1) \o SubSeq(docs, i + 1, Len(docs)))

\* collection.query(query_embeddings, n_results, where): the n_results
\* nearest documents that pass the filter, nearest first.
IndexQuery(docs, n_results, where) ==
    LET ranked == NearestFirst(SelectMatching(docs, where))
    IN  SubSeq(ranked, 1, IF Len(ranked) < n_results THEN Len(ranked)
                          ELSE n_results)

\* Similarity without the halving: 1 - distance**2.
Similarity_NoHalf(distance) == 200 - 2 * distance * distance

\* similarity = 1 - (distance**2 / 2), distance in tenths, result in 1/200
Similarity(distance) == 200 - distance * distance

\* WhereFilter scoping to the first identifier only.
WhereFilter_FirstOnly(enabled) ==
    IF ~enabled.is_none /\ Len(enabled.ids) > 0
    THEN EqFilter(enabled.ids[1])
    ELSE NoFilter

\* "Build where filter for datasets"
WhereFilter(enabled) ==
    IF ~enabled.is_none /\ Len(enabled.ids) > 0
    THEN IF Len(enabled.ids) = 1
         THEN EqFilter(enabled.ids[1])
         ELSE InFilter(enabled.ids)
    ELSE NoFilter

\* EmptyScope with the empty list not told apart from None.
EmptyScope_Never(enabled) == FALSE

\* The explicit empty list: "return no results".
EmptyScope(enabled) == ~enabled.is_none /\ Len(enabled.ids) = 0

\* The chunker variables, at rest.
ChunkIdle ==
    /\ text = <<>>
    /\ chunk_size = 0
    /\ chunk_overlap = 0
    /\ strategy = "sentences"
    /\ pc = "idle"
    /\ start = 0
    /\ chunks = <<>>
    /\ chunk_index = 0
    /\ sentences = <<>>
    /\ sent_i = 0
    /\ current_chunk = <<>>
    /\ char_position = 0
    /\ warned = FALSE
    /\ result = <<>>

\* A call search(query_embedding, top_k, enabled_datasets, min_score) is
\* pending on an index that holds `collection`.
InitSearch ==
    /\ collection \in UNION {Collections(n) : n \in 0..MaxDocs}
    /\ top_k \in 1..MaxTopK
    /\ enabled_datasets \in {None} \cup {Some(q) : q \in SeqsUpTo(ScopeIds, MaxScope)}
    /\ min_score \in MinScores
    /\ spc = "search"
    /\ query_calls = <<>>
    /\ where_filter = NoFilter
    /\ results = <<>>
    /\ res_i = 0
    /\ documents = <<>>
    /\ search_result = <<>>
    /\ ChunkIdle
    /\ LlmIdle
    /\ PipeIdle
    /\ EvalIdle

\* search up to the result loop: the empty-scope return, the filter, the
\* index query.
Search ==
    /\ spc = "search"
    /\ IF EmptyScope(enabled_datasets)
       THEN /\ search_result' = <<>>
            /\ spc' = "done"
            /\ UNCHANGED <<where_filter, query_calls, results, res_i,
                           documents>>
       ELSE /\ where_filter' = WhereFilter(enabled_datasets)
            /\ query_calls' = Append(query_calls,
                                     [n_results |-> top_k,
                                      where |-> where_filter'])
            /\ results' = IndexQuery(collection, top_k, where_filter')
            /\ documents' = <<>>
            /\ res_i' = 1
            /\ spc' = "process"
            /\ UNCHANGED search_result
    /\ UNCHANGED <<collection, top_k, enabled_datasets, min_score>>
    /\ UNCHANGED <<chunk_vars, llm_vars, pipe_vars, eval_vars>>

\* ProcessResult dropping a candidate whose similarity equals min_score.
ProcessResult_DropEqual ==
    /\ spc = "process"
    /\ res_i <= Len(results)
    /\ LET similarity == Similarity(results[res_i].distance)
       IN  documents' =
               IF similarity <= min_score THEN documents
               ELSE Append(documents,
                           [text |-> results[res_i].text,
                            score |-> similarity,
                            metadata |-> results[res_i].metadata,
                            id |-> results[res_i].id])
    /\ res_i' = res_i + 1
    /\ UNCHANGED <<collection, top_k, enabled_datasets, min_score, spc,
                   query_calls, where_filter, results, search_result>>
    /\ UNCHANGED <<chunk_vars, llm_vars, pipe_vars, eval_vars>>

\* ProcessResult putting each kept candidate in front of the earlier ones.
ProcessResult_Prepend ==
    /\ spc = "process"
    /\ res_i <= Len(results)
    /\ LET similarity == Similarity(results[res_i].distance)
       IN  documents' =
               IF similarity < min_score THEN documents
               ELSE <<[text |-> results[res_i].text,
                       score |-> similarity,
                       metadata |-> results[res_i].metadata,
                       id |-> results[res_i].id]>> \o documents
    /\ res_i' = res_i + 1
    /\ UNCHANGED <<collection, top_k, enabled_datasets, min_score, spc,
                   query_calls, where_filter, results, search_result>>
    /\ UNCHANGED <<chunk_vars, llm_vars, pipe_vars, eval_vars>>

\* One iteration of the loop over the index's candidates.
ProcessResult ==
    /\ spc = "process"
    /\ res_i <= Len(results)
    /\ LET similarity == Similarity(results[res_i].distance)
       IN  documents' =
               IF similarity < min_score THEN documents
               ELSE Append(documents,
                           [text |-> results[res_i].text,
                            score |-> similarity,
                            metadata |-> results[res_i].metadata,
                            id |-> results[res_i].id])
    /\ res_i' = res_i + 1
    /\ UNCHANGED <<collection, top_k, enabled_datasets, min_score, spc,
                   query_calls, where_filter, results, search_result>>
    /\ UNCHANGED <<chunk_vars, llm_vars, pipe_vars, eval_vars>>

\* After the loop: return documents.
SearchReturn ==
    /\ spc = "process"
    /\ res_i > Len(results)
    /\ search_result' = documents
    /\ spc' = "done"
    /\ UNCHANGED <<collection, top_k, enabled_datasets, min_score,
                   query_calls, where_filter, results, res_i, documents>>
    /\ UNCHANGED <<chunk_vars, llm_vars, pipe_vars, eval_vars>>

NextSearch ==
    \/ Search
    \/ ProcessResult
    \/ SearchReturn

SpecSearch == InitSearch /\ [][NextSearch]_vars

----------------------------------------------------------------------------
(* LLMClient.generate *)

\* TOKEN_PRICING, in units of $0.05 per 1M tokens (2.50 is 50, 0.15 is 3).
TOKEN_PRICING ==
    [m \in {"gpt-4o", "gpt-4o-mini", "gpt-4-turbo", "gpt-4", "gpt-3.5-turbo"} |->
        CASE m = "gpt-4o" -> [input |-> 50, output |-> 200]
          [] m = "gpt-4o-mini" -> [input |-> 3, output |-> 12]
          [] m = "gpt-4-turbo" -> [input |-> 200, output |-> 600]
          [] m = "gpt-4" -> [input |-> 600, output |-> 1200]
          [] m = "gpt-3.5-turbo" -> [input |-> 10, output |-> 30]]

\* Model identifiers a caller passes: the priced ones and two that are not.
Models == DOMAIN TOKEN_PRICING \cup {"unknown-model", "gpt-5"}

\* Token counts the API reports.
PromptTokenCounts == {120, 1000000}

CompletionTokenCounts == {1, 500}

\* Sampling temperatures, in tenths.
Temperatures == {0, 7}

\* _calculate_cost with the cheapest model as the default.
CalculateCost_DefaultMini(m, p_tokens, c_tokens) ==
    LET pricing == IF m \in DOMAIN TOKEN_PRICING THEN TOKEN_PRICING[m]
                   ELSE TOKEN_PRICING["gpt-4o-mini"]
    IN  p_tokens * pricing.input + c_tokens * pricing.output

\* _calculate_cost, in units of 5e-8 dollar:
\* (tokens / 1_000_000) * dollars-per-1M, summed over input and output.
CalculateCost(m, p_tokens, c_tokens) ==
    LET pricing == IF m \in DOMAIN TOKEN_PRICING THEN TOKEN_PRICING[m]
                   ELSE TOKEN_PRICING["gpt-4o"]
    IN  p_tokens * pricing.input + c_tokens * pricing.output

\* The answer the API gives to a prompt.
GeneratedText == "generated"

\* A call generate(prompt, model, temperature, max_tokens) is pending.
InitLlm ==
    /\ model \in Models
    /\ prompt = <<"prompt">>
    /\ temperature \in Temperatures
    /\ max_tokens = 500
    /\ lpc = "generate"
    /\ api_calls = <<>>
    /\ api_response = [text |-> "", prompt_tokens |-> 0,
                       completion_tokens |-> 0, total_tokens |-> 0]
    /\ llm_response = [text |-> "", prompt_tokens |-> 0,
                       completion_tokens |-> 0, total_tokens |-> 0,
                       cost |-> 0, model |-> "", temperature |-> 0]
    /\ ChunkIdle
    /\ SearchIdle
    /\ PipeIdle
    /\ EvalIdle

\* client.chat.completions.create answers.
CreateCompletion ==
    /\ lpc = "generate"
    /\ api_calls' = Append(api_calls,
                           [model |-> model, content |-> prompt,
                            temperature |-> temperature,
                            max_tokens |-> max_tokens])
    /\ \E p \in PromptTokenCounts, c \in CompletionTokenCounts :
          api_response' = [text |-> GeneratedText, prompt_tokens |-> p,
                           completion_tokens |-> c, total_tokens |-> p + c]
    /\ lpc' = "created"
    /\ UNCHANGED <<model, prompt, temperature, max_tokens, llm_response>>
    /\ UNCHANGED <<chunk_vars, search_vars, pipe_vars, eval_vars>>

\* client.chat.completions.create raises; the except clause logs and
\* re-raises.
CreateCompletionRaises ==
    /\ lpc = "generate"
    /\ api_calls' = Append(api_calls,
                           [model |-> model, content |-> prompt,
                            temperature |-> temperature,
                            max_tokens |-> max_tokens])
    /\ lpc' = "raised"
    /\ UNCHANGED <<model, prompt, temperature, max_tokens, api_response,
                   llm_response>>
    /\ UNCHANGED <<chunk_vars, search_vars, pipe_vars, eval_vars>>

\* Extract the response data, calculate the cost, return the dictionary.
GenerateReturn ==
    /\ lpc = "created"
    /\ llm_response' =
          [text |-> api_response.text,
           prompt_tokens |-> api_response.prompt_tokens,
           completion_tokens |-> api_response.completion_tokens,
           total_tokens |-> api_response.total_tokens,
           cost |-> CalculateCost(model, api_response.prompt_tokens,
                                  api_response.completion_tokens),
           model |-> model,
           temperature |-> temperature]
    /\ lpc' = "returned"
    /\ UNCHANGED <<model, prompt, temperature, max_tokens, api_calls,
                   api_response>>
    /\ UNCHANGED <<chunk_vars, search_vars, pipe_vars, eval_vars>>

NextLlm ==
    \/ CreateCompletion
    \/ CreateCompletionRaises
    \/ GenerateReturn

SpecLlm == InitLlm /\ [][NextLlm]_vars

----------------------------------------------------------------------------
(* The datasets table (Database) *)

\* The rows of the table as list_datasets returns them (ORDER BY created_at
\* DESC): distinct datasets, each enabled or not.
Registries ==
    {r \in UNION {[1..n -> [id : ScopeIds, enabled : BOOLEAN]] :
                     n \in 0..Cardinality(ScopeIds)} :
        \A i, j \in 1..Len(r) : i # j => r[i].id # r[j].id}

\* [d["id"] for d in all_datasets], whatever the enabled flag.
RECURSIVE EnabledIds_All(_)
EnabledIds_All(rows) ==
    IF rows = <<>> THEN <<>>
    ELSE <<Head(rows).id>> \o EnabledIds_All(Tail(rows))

\* [d["id"] for d in all_datasets if d["enabled"]]
RECURSIVE EnabledIds(_)
EnabledIds(rows) ==
    IF rows = <<>> THEN <<>>
    ELSE IF Head(rows).enabled
         THEN <<Head(rows).id>> \o EnabledIds(Tail(rows))
         ELSE EnabledIds(Tail(rows))

RECURSIVE WithoutDataset(_, _)
WithoutDataset(rows, id) ==
    IF rows = <<>> THEN <<>>
    ELSE IF Head(rows).id = id THEN WithoutDataset(Tail(rows), id)
         ELSE <<Head(rows)>> \o WithoutDataset(Tail(rows), id)

\* A query is in flight and more registry writes are followed.
RegistryWritable ==
    /\ ppc \notin {"idle", "returned", "raised"}
    /\ registry_ops < MaxRegistryOps

\* Database.create_dataset: a new row, enabled by default, the newest.
CreateDataset ==
    /\ RegistryWritable
    /\ \E id \in ScopeIds :
          /\ \A i \in 1..Len(registry) : registry[i].id # id
          /\ registry' = <<[id |-> id, enabled |-> TRUE]>> \o registry
    /\ registry_ops' = registry_ops + 1
    /\ UNCHANGED <<q_top_k, q_enabled_datasets, q_min_score, q_model, ppc,
                   all_datasets, scope, calls, steps, retrieved_chunks,
                   full_prompt, response, raised>>
    /\ UNCHANGED <<chunk_vars, search_vars, llm_vars, eval_vars>>

\* Database.update_dataset with updates = {"enabled": 0 or 1}.
UpdateDataset ==
    /\ RegistryWritable
    /\ \E i \in 1..Len(registry), e \in BOOLEAN :
          /\ registry[i].enabled # e
          /\ registry' = [registry EXCEPT ![i].enabled = e]
    /\ registry_ops' = registry_ops + 1
    /\ UNCHANGED <<q_top_k, q_enabled_datasets, q_min_score, q_model, ppc,
                   all_datasets, scope, calls, steps, retrieved_chunks,
                   full_prompt, response, raised>>
    /\ UNCHANGED <<chunk_vars, search_vars, llm_vars, eval_vars>>

\* Database.delete_dataset.
DeleteDataset ==
    /\ RegistryWritable
    /\ \E i \in 1..Len(registry) :
          registry' = WithoutDataset(registry, registry[i].id)
    /\ registry_ops' = registry_ops + 1
    /\ UNCHANGED <<q_top_k, q_enabled_datasets, q_min_score, q_model, ppc,
                   all_datasets, scope, calls, steps, retrieved_chunks,
                   full_prompt, response, raised>>
    /\ UNCHANGED <<chunk_vars, search_vars, llm_vars, eval_vars>>

----------------------------------------------------------------------------
(* RAGPipeline.query *)

QueryText == "query"

\* The documents of the index a query runs against: none, or d1 at distance
\* 1.0 with a source title and d2 at distance 0.0 without one.
PipeCollections ==
    {<<>>} \cup
    {<<[id |-> "d1", text |-> <<"text", "d1">>,
        metadata |-> [dataset_id |-> a, source_title |-> "fables.txt"],
        distance |-> 10],
       [id |-> "d2", text |-> <<"text", "d2">>,
        metadata |-> [dataset_id |-> b],
        distance |-> 0]>> : a \in {"ds1", "ds3"}, b \in {"ds1", "ds2"}}

\* round(score, 4): from units of 1/200 to units of 1/10000.
Round4(score) == score * 50

\* "{score:.2f}": from units of 1/200 to hundredths (the scores of the model
\* are whole hundredths).
Fmt2(score) == (score * 100) \div 200

\* chunk["metadata"].get("source_title", "Unknown")
SourceTitle(metadata) ==
    IF "source_title" \in DOMAIN metadata THEN metadata.source_title
    ELSE "Unknown"

\* The pieces a context is made of.
Sentinel ==
    [kind |-> "No relevant context found.", rank |-> 0, source |-> "",
     relevance |-> 0, text |-> <<>>]

BlankLine ==
    [kind |-> "\n\n", rank |-> 0, source |-> "", relevance |-> 0,
     text |-> <<>>]

\* "[Source {i}: {source} (relevance: {score:.2f})]\n{text}"
SourceBlock(i, chunk) ==
    [kind |-> "[Source", rank |-> i, source |-> SourceTitle(chunk.metadata),
     relevance |-> Fmt2(chunk.score), text |-> chunk.text]

\* "\n\n".join(formatted) over enumerate(chunks, first)
RECURSIVE JoinBlocks(_, _)
JoinBlocks(chunk_list, i) ==
    IF chunk_list = <<>> THEN <<>>
    ELSE IF Len(chunk_list) = 1 THEN <<SourceBlock(i, Head(chunk_list))>>
    ELSE <<SourceBlock(i, Head(chunk_list)), BlankLine>>
         \o JoinBlocks(Tail(chunk_list), i + 1)

\* _format_context numbering the sources from 0.
FormatContext_ZeroBased(chunk_list) ==
    IF chunk_list = <<>> THEN <<Sentinel>> ELSE JoinBlocks(chunk_list, 0)

\* _format_context
FormatContext(chunk_list) ==
    IF chunk_list = <<>> THEN <<Sentinel>> ELSE JoinBlocks(chunk_list, 1)

\* enabled_datasets or "all"
TraceScope(ids) ==
    IF ids = <<>> THEN [all |-> TRUE, ids |-> <<>>]
    ELSE [all |-> FALSE, ids |-> ids]

\* chunks_data of the retrieval step
RECURSIVE ChunksData(_)
ChunksData(chunk_list) ==
    IF chunk_list = <<>> THEN <<>>
    ELSE <<[text |-> Head(chunk_list).text,
            score |-> Round4(Head(chunk_list).score),
            metadata |-> Head(chunk_list).metadata]>>
         \o ChunksData(Tail(chunk_list))

\* The trace steps (latencies are wall-clock readings and are left out).
EmbeddingStep ==
    [name |-> "embedding",
     details |-> [request |-> [query_text |-> QueryText]]]

RetrievalStep(chunk_list, k, ids, m) ==
    [name |-> "retrieval",
     details |-> [chunks_found |-> Len(chunk_list),
                  chunks |-> ChunksData(chunk_list),
                  request |-> [top_k |-> k,
                               enabled_datasets |-> TraceScope(ids),
                               min_score |-> m]]]

GenerationStep(r, p, m) ==
    [name |-> "llm_generation",
     details |-> [model |-> r.model,
                  prompt_tokens |-> r.prompt_tokens,
                  completion_tokens |-> r.completion_tokens,
                  total_tokens |-> r.total_tokens,
                  cost |-> r.cost,
                  temperature |-> r.temperature,
                  request |-> [prompt |-> p, model |-> m],
                  response |-> [generated_text |-> r.text,
                                tokens_used |-> r.total_tokens]]]

\* A call query(query, top_k, enabled_datasets, model, ..., min_score) is
\* pending; the search and the LLM client have not been called.
InitPipeline ==
    /\ registry \in Registries
    /\ q_top_k \in 1..MaxTopK
    /\ q_enabled_datasets
          \in {None} \cup {Some(q) : q \in SeqsUpTo(ScopeIds, MaxScope)}
    /\ q_min_score \in {0, 200}
    /\ q_model = "gpt-4o-mini"
    /\ ppc = "query"
    /\ all_datasets = <<>>
    /\ scope = None
    /\ calls = <<>>
    /\ steps = <<>>
    /\ retrieved_chunks = <<>>
    /\ full_prompt = [retrieved_chunks |-> <<>>, user_query |-> ""]
    /\ response = [returned |-> FALSE, answer |-> "", steps |-> <<>>,
                   full_prompt |-> [retrieved_chunks |-> <<>>,
                                    user_query |-> ""]]
    /\ raised = ""
    /\ registry_ops = 0
    /\ collection \in PipeCollections
    /\ top_k = 1
    /\ enabled_datasets = None
    /\ min_score = 0
    /\ spc = "idle"
    /\ query_calls = <<>>
    /\ where_filter = NoFilter
    /\ results = <<>>
    /\ res_i = 0
    /\ documents = <<>>
    /\ search_result = <<>>
    /\ ChunkIdle
    /\ LlmIdle
    /\ EvalIdle

\* The same entry, leaving enabled_datasets = None unresolved.
ResolveDatasets_KeepNone ==
    /\ ppc = "query"
    /\ IF q_enabled_datasets.is_none
       THEN /\ all_datasets' = registry
            /\ scope' = None
            /\ calls' = Append(calls, "registry")
       ELSE /\ scope' = q_enabled_datasets
            /\ UNCHANGED <<all_datasets, calls>>
    /\ steps' = <<>>
    /\ ppc' = "embed"
    /\ UNCHANGED <<registry, q_top_k, q_enabled_datasets, q_min_score,
                   q_model, retrieved_chunks, full_prompt, response, raised,
                   registry_ops>>
    /\ UNCHANGED <<chunk_vars, search_vars, llm_vars, eval_vars>>

\* Lines 54-63: enabled_datasets = None is resolved against the registry as
\* it is now; a given list is taken as it is.
ResolveDatasets ==
    /\ ppc = "query"
    /\ IF q_enabled_datasets.is_none
       THEN /\ all_datasets' = registry
            /\ scope' = Some(EnabledIds(registry))
            /\ calls' = Append(calls, "registry")
       ELSE /\ scope' = q_enabled_datasets
            /\ UNCHANGED <<all_datasets, calls>>
    /\ steps' = <<>>
    /\ ppc' = "embed"
    /\ UNCHANGED <<registry, q_top_k, q_enabled_datasets, q_min_score,
                   q_model, retrieved_chunks, full_prompt, response, raised,
                   registry_ops>>
    /\ UNCHANGED <<chunk_vars, search_vars, llm_vars, eval_vars>>

\* db.list_datasets() raises.
ListDatasetsRaises ==
    /\ ppc = "query"
    /\ q_enabled_datasets.is_none
    /\ calls' = Append(calls, "registry")
    /\ raised' = "registry"
    /\ ppc' = "raised"
    /\ UNCHANGED <<registry, q_top_k, q_enabled_datasets, q_min_score,
                   q_model, all_datasets, scope, steps, retrieved_chunks,
                   full_prompt, response, registry_ops>>
    /\ UNCHANGED <<chunk_vars, search_vars, llm_vars, eval_vars>>

\* Line 67: embedding_service.embed_query(query) returns.
EmbedQuery ==
    /\ ppc = "embed"
    /\ calls' = Append(calls, "embed")
    /\ ppc' = "embedded"
    /\ UNCHANGED <<registry, q_top_k, q_enabled_datasets, q_min_score,
                   q_model, all_datasets, scope, steps, retrieved_chunks,
                   full_prompt, response, raised, registry_ops>>
    /\ UNCHANGED <<chunk_vars, search_vars, llm_vars, eval_vars>>

\* Line 67: embedding_service.embed_query(query) raises.
EmbedQueryRaises ==
    /\ ppc = "embed"
    /\ calls' = Append(calls, "embed")
    /\ raised' = "embed"
    /\ ppc' = "raised"
    /\ UNCHANGED <<registry, q_top_k, q_enabled_datasets, q_min_score,
                   q_model, all_datasets, scope, steps, retrieved_chunks,
                   full_prompt, response, registry_ops>>
    /\ UNCHANGED <<chunk_vars, search_vars, llm_vars, eval_vars>>

\* Lines 70-89: the embedding step is appended.
RecordEmbedding ==
    /\ ppc = "embedded"
    /\ steps' = Append(steps, EmbeddingStep)
    /\ ppc' = "retrieve"
    /\ UNCHANGED <<registry, q_top_k, q_enabled_datasets, q_min_score,
                   q_model, all_datasets, scope, calls, retrieved_chunks,
                   full_prompt, response, raised, registry_ops>>
    /\ UNCHANGED <<chunk_vars, search_vars, llm_vars, eval_vars>>

\* The same call, appending the retrieval step before the search returned.
SearchCall_RecordsFirst ==
    /\ ppc = "retrieve"
    /\ calls' = Append(calls, "search")
    /\ steps' = Append(steps, RetrievalStep(<<>>, q_top_k, scope.ids,
                                            q_min_score))
    /\ top_k' = q_top_k
    /\ enabled_datasets' = scope
    /\ min_score' = q_min_score
    /\ spc' = "search"
    /\ ppc' = "searching"
    /\ UNCHANGED <<registry, q_top_k, q_enabled_datasets, q_min_score,
                   q_model, all_datasets, scope, retrieved_chunks,
                   full_prompt, response, raised, registry_ops>>
    /\ UNCHANGED <<collection, query_calls, where_filter, results, res_i,
                   documents, search_result>>
    /\ UNCHANGED <<chunk_vars, llm_vars, eval_vars>>

\* The same call, reading the registry again for the scope it passes.
SearchCall_RereadsRegistry ==
    /\ ppc = "retrieve"
    /\ calls' = Append(calls, "search")
    /\ top_k' = q_top_k
    /\ enabled_datasets' = IF q_enabled_datasets.is_none
                           THEN Some(EnabledIds(registry)) ELSE scope
    /\ min_score' = q_min_score
    /\ spc' = "search"
    /\ ppc' = "searching"
    /\ UNCHANGED <<registry, q_top_k, q_enabled_datasets, q_min_score,
                   q_model, all_datasets, scope, steps, retrieved_chunks,
                   full_prompt, response, raised, registry_ops>>
    /\ UNCHANGED <<collection, query_calls, where_filter, results, res_i,
                   documents, search_result>>
    /\ UNCHANGED <<chunk_vars, llm_vars, eval_vars>>

\* Lines 93-98: vector_store.search(query_embedding, top_k, enabled_datasets,
\* min_score) is called.
SearchCall ==
    /\ ppc = "retrieve"
    /\ calls' = Append(calls, "search")
    /\ top_k' = q_top_k
    /\ enabled_datasets' = scope
    /\ min_score' = q_min_score
    /\ spc' = "search"
    /\ ppc' = "searching"
    /\ UNCHANGED <<registry, q_top_k, q_enabled_datasets, q_min_score,
                   q_model, all_datasets, scope, steps, retrieved_chunks,
                   full_prompt, response, raised, registry_ops>>
    /\ UNCHANGED <<collection, query_calls, where_filter, results, res_i,
                   documents, search_result>>
    /\ UNCHANGED <<chunk_vars, llm_vars, eval_vars>>

\* vector_store.py line 116: collection.query raises inside search, which has
\* no handler.
QueryRaises ==
    /\ spc = "search"
    /\ ~EmptyScope(enabled_datasets)
    /\ where_filter' = WhereFilter(enabled_datasets)
    /\ query_calls' = Append(query_calls,
                             [n_results |-> top_k,
                              where |-> WhereFilter(enabled_datasets)])
    /\ spc' = "raised"
    /\ UNCHANGED <<collection, top_k, enabled_datasets, min_score, results,
                   res_i, documents, search_result>>
    /\ UNCHANGED <<chunk_vars, llm_vars, pipe_vars, eval_vars>>

\* Line 93: the exception of the search leaves query.
SearchRaised ==
    /\ ppc = "searching"
    /\ spc = "raised"
    /\ raised' = "search"
    /\ ppc' = "raised"
    /\ UNCHANGED <<registry, q_top_k, q_enabled_datasets, q_min_score,
                   q_model, all_datasets, scope, calls, steps,
                   retrieved_chunks, full_prompt, response, registry_ops>>
    /\ UNCHANGED <<chunk_vars, search_vars, llm_vars, eval_vars>>

\* Lines 99-139: the search returned; the retrieval step is appended.
RecordRetrieval ==
    /\ ppc = "searching"
    /\ spc = "done"
    /\ retrieved_chunks' = search_result
    /\ steps' = Append(steps, RetrievalStep(search_result, q_top_k,
                                            scope.ids, q_min_score))
    /\ ppc' = "prompt"
    /\ UNCHANGED <<registry, q_top_k, q_enabled_datasets, q_min_score,
                   q_model, all_datasets, scope, calls, full_prompt,
                   response, raised, registry_ops>>
    /\ UNCHANGED <<chunk_vars, search_vars, llm_vars, eval_vars>>

\* Lines 142-146: the context is formatted and put into the prompt template.
BuildPrompt ==
    /\ ppc = "prompt"
    /\ full_prompt' = [retrieved_chunks |-> FormatContext(retrieved_chunks),
                       user_query |-> QueryText]
    /\ ppc' = "generate"
    /\ UNCHANGED <<registry, q_top_k, q_enabled_datasets, q_min_score,
                   q_model, all_datasets, scope, calls, steps,
                   retrieved_chunks, response, raised, registry_ops>>
    /\ UNCHANGED <<chunk_vars, search_vars, llm_vars, eval_vars>>

\* Lines 150-155: llm_client.generate(prompt, model, temperature, max_tokens)
\* is called.
GenerateCall ==
    /\ ppc = "generate"
    /\ calls' = Append(calls, "generate")
    /\ model' = q_model
    /\ prompt' = full_prompt
    /\ temperature' = 7
    /\ max_tokens' = 500
    /\ lpc' = "generate"
    /\ ppc' = "generating"
    /\ UNCHANGED <<api_calls, api_response, llm_response>>
    /\ UNCHANGED <<registry, q_top_k, q_enabled_datasets, q_min_score,
                   q_model, all_datasets, scope, steps, retrieved_chunks,
                   full_prompt, response, raised, registry_ops>>
    /\ UNCHANGED <<chunk_vars, search_vars, eval_vars>>

\* The same failure, answered with what was gathered so far.
GenerateRaised_Degraded ==
    /\ ppc = "generating"
    /\ lpc = "raised"
    /\ raised' = "generate"
    /\ response' = [returned |-> TRUE, answer |-> "", steps |-> steps,
                    full_prompt |-> full_prompt]
    /\ ppc' = "raised"
    /\ UNCHANGED <<registry, q_top_k, q_enabled_datasets, q_min_score,
                   q_model, all_datasets, scope, calls, steps,
                   retrieved_chunks, full_prompt, registry_ops>>
    /\ UNCHANGED <<chunk_vars, search_vars, llm_vars, eval_vars>>

\* Line 150: the exception generate re-raised leaves query.
GenerateRaised ==
    /\ ppc = "generating"
    /\ lpc = "raised"
    /\ raised' = "generate"
    /\ ppc' = "raised"
    /\ UNCHANGED <<registry, q_top_k, q_enabled_datasets, q_min_score,
                   q_model, all_datasets, scope, calls, steps,
                   retrieved_chunks, full_prompt, response, registry_ops>>
    /\ UNCHANGED <<chunk_vars, search_vars, llm_vars, eval_vars>>

\* Lines 156-183: generate returned; the generation step is appended.
RecordGeneration ==
    /\ ppc = "generating"
    /\ lpc = "returned"
    /\ steps' = Append(steps, GenerationStep(llm_response, full_prompt,
                                             q_model))
    /\ ppc' = "finish"
    /\ UNCHANGED <<registry, q_top_k, q_enabled_datasets, q_min_score,
                   q_model, all_datasets, scope, calls, retrieved_chunks,
                   full_prompt, response, raised, registry_ops>>
    /\ UNCHANGED <<chunk_vars, search_vars, llm_vars, eval_vars>>

\* Lines 189-199: the response is returned.
QueryReturn ==
    /\ ppc = "finish"
    /\ response' = [returned |-> TRUE, answer |-> llm_response.text,
                    steps |-> steps, full_prompt |-> full_prompt]
    /\ ppc' = "returned"
    /\ UNCHANGED <<registry, q_top_k, q_enabled_datasets, q_min_score,
                   q_model, all_datasets, scope, calls, steps,
                   retrieved_chunks, full_prompt, raised, registry_ops>>
    /\ UNCHANGED <<chunk_vars, search_vars, llm_vars, eval_vars>>

NextPipeline ==
    \/ ResolveDatasets
    \/ ListDatasetsRaises
    \/ EmbedQuery
    \/ EmbedQueryRaises
    \/ RecordEmbedding
    \/ SearchCall
    \/ Search
    \/ QueryRaises
    \/ ProcessResult
    \/ SearchReturn
    \/ SearchRaised
    \/ RecordRetrieval
    \/ BuildPrompt
    \/ GenerateCall
    \/ CreateCompletion
    \/ CreateCompletionRaises
    \/ GenerateReturn
    \/ GenerateRaised
    \/ RecordGeneration
    \/ QueryReturn
    \/ CreateDataset
    \/ UpdateDataset
    \/ DeleteDataset

SpecPipeline == InitPipeline /\ [][NextPipeline]_vars

----------------------------------------------------------------------------
(* EvaluationService.evaluate_batch *)

\* str.lower() on one character.
LowerChar(c) ==
    CASE c = "A" -> "a"
      [] c = "B" -> "b"
      [] c = "Q" -> "q"
      [] OTHER -> c

\* str.lower()
Lower(str) == [i \in 1..Len(str) |-> LowerChar(str[i])]

\* kw in str
Contains(str, kw) ==
    \E i \in 0..(Len(str) - Len(kw)) : SubSeq(str, i + 1, i + Len(kw)) = kw

\* The same list, comparing the keywords as they are written.
KeywordsFound_CaseSensitive(answer, expected_keywords) ==
    SelectSeq(expected_keywords, LAMBDA kw : Contains(answer, kw))

\* Lines 106-107: [kw for kw in expected_keywords if kw.lower() in answer]
\* with answer = response["answer"].lower()
KeywordsFound(answer, expected_keywords) ==
    SelectSeq(expected_keywords,
              LAMBDA kw : Contains(Lower(answer), Lower(kw)))

RECURSIVE Factorial(_)
Factorial(n) == IF n <= 1 THEN 1 ELSE n * Factorial(n - 1)

\* Coverages are counted in units of 1/CoverageUnit and means in units of
\* 1/MeanUnit of their values' unit, so that every quotient the code can
\* form on the enumerated inputs is a whole number.
CoverageUnit == Factorial(MaxKeywords)

MeanUnit == Factorial(MaxQuestions)

\* Lines 110-114: len(keywords_found) / len(expected_keywords) if
\* expected_keywords else 0.0
KeywordCoverage(keywords_found, expected_keywords) ==
    IF expected_keywords # <<>>
    THEN (Len(keywords_found) * CoverageUnit) \div Len(expected_keywords)
    ELSE 0

RECURSIVE Sum(_)
Sum(values) == IF values = <<>> THEN 0 ELSE Head(values) + Sum(Tail(values))

\* The mean leaving the last value out of the sum.
Mean_DropLast(values) ==
    IF values # <<>>
    THEN (Sum(SubSeq(values, 1, Len(values) - 1)) * MeanUnit) \div Len(values)
    ELSE 0

\* Lines 128-137: sum(...) / len(results) if results else 0.0
Mean(values) ==
    IF values # <<>> THEN (Sum(values) * MeanUnit) \div Len(values) ELSE 0

\* The texts of the evaluation.
Fox == <<"t", "h", "e", " ", "q", "u", "i", "c", "k", " ",
         "b", "r", "o", "w", "n", " ", "f", "o", "x">>

QuickAb == <<"Q", "u", "i", "c", "k", " ", "a", "B">>

Quick == <<"q", "u", "i", "c", "k">>

Slow == <<"s", "l", "o", "w">>

Ab == <<"A", "b">>

Keywords == <<Ab, Quick, Slow>>

\* The expected_keywords lists enumerated: keywords taken once each, in the
\* order of Keywords.
KeywordLists ==
    {[i \in 1..Len(pos) |-> Keywords[pos[i]]] :
        pos \in {q \in SeqsUpTo(1..Len(Keywords), MaxKeywords) :
                    \A i, j \in 1..Len(q) : i < j => q[i] < q[j]}}

\* What a test question can be: the question is named after its keywords.
TestQuestions ==
    {[question |-> k, expected_keywords |-> k] : k \in KeywordLists}

\* What rag_pipeline.query can return: the answer and the time it took.
Responses ==
    {[answer |-> Fox, total_latency_ms |-> 10],
     [answer |-> QuickAb, total_latency_ms |-> 25]}

\* A call evaluate_batch(test_questions, rag_pipeline, config) is pending.
InitEval ==
    /\ test_questions \in SeqsUpTo(TestQuestions, MaxQuestions)
    /\ epc = "loop"
    /\ eval_i = 0
    /\ invocations = <<>>
    /\ pipeline_response = [answer |-> <<>>, total_latency_ms |-> 0]
    /\ eval_results = <<>>
    /\ batch = [returned |-> FALSE, total_questions |-> 0,
                avg_keyword_coverage |-> 0, avg_latency_ms |-> 0,
                results |-> <<>>]
    /\ eval_raised = FALSE
    /\ ChunkIdle
    /\ SearchIdle
    /\ LlmIdle
    /\ PipeIdle

\* Lines 98-103: the next question is given to rag_pipeline.query, which
\* returns.
QueryPipeline ==
    /\ epc = "loop"
    /\ eval_i < Len(test_questions)
    /\ invocations' = Append(invocations, test_questions[eval_i + 1].question)
    /\ pipeline_response' \in Responses
    /\ epc' = "score"
    /\ UNCHANGED <<test_questions, eval_i, eval_results, batch, eval_raised>>
    /\ UNCHANGED <<chunk_vars, search_vars, llm_vars, pipe_vars>>

\* The same failure, swallowed: the loop goes on with the next question.
QueryPipelineRaises_SkipQuestion ==
    /\ epc = "loop"
    /\ eval_i < Len(test_questions)
    /\ invocations' = Append(invocations, test_questions[eval_i + 1].question)
    /\ eval_i' = eval_i + 1
    /\ eval_raised' = TRUE
    /\ UNCHANGED <<test_questions, epc, pipeline_response, eval_results,
                   batch>>
    /\ UNCHANGED <<chunk_vars, search_vars, llm_vars, pipe_vars>>

\* Line 103: rag_pipeline.query raises; the loop has no handler.
QueryPipelineRaises ==
    /\ epc = "loop"
    /\ eval_i < Len(test_questions)
    /\ invocations' = Append(invocations, test_questions[eval_i + 1].question)
    /\ eval_raised' = TRUE
    /\ epc' = "raised"
    /\ UNCHANGED <<test_questions, eval_i, pipeline_response, eval_results,
                   batch>>
    /\ UNCHANGED <<chunk_vars, search_vars, llm_vars, pipe_vars>>

\* Lines 105-125: the answer is scored and the result appended.
ScoreAnswer ==
    /\ epc = "score"
    /\ LET test_q == test_questions[eval_i + 1]
           keywords_found == KeywordsFound(pipeline_response.answer,
                                           test_q.expected_keywords)
       IN eval_results' =
             Append(eval_results,
                    [question |-> test_q.question,
                     answer |-> pipeline_response.answer,
                     expected_keywords |-> test_q.expected_keywords,
                     keywords_found |-> keywords_found,
                     keyword_coverage |->
                        KeywordCoverage(keywords_found,
                                        test_q.expected_keywords),
                     total_latency_ms |->
                        pipeline_response.total_latency_ms])
    /\ eval_i' = eval_i + 1
    /\ epc' = "loop"
    /\ UNCHANGED <<test_questions, invocations, pipeline_response, batch,
                   eval_raised>>
    /\ UNCHANGED <<chunk_vars, search_vars, llm_vars, pipe_vars>>

\* Lines 127-145: the loop is over; the aggregates are computed and the
\* batch result returned.
Aggregate ==
    /\ epc = "loop"
    /\ eval_i = Len(test_questions)
    /\ batch' =
          [returned |-> TRUE,
           total_questions |-> Len(test_questions),
           avg_keyword_coverage |->
              Mean([i \in 1..Len(eval_results) |->
                       eval_results[i].keyword_coverage]),
           avg_latency_ms |->
              Mean([i \in 1..Len(eval_results) |->
                       eval_results[i].total_latency_ms]),
           results |-> eval_results]
    /\ epc' = "returned"
    /\ UNCHANGED <<test_questions, eval_i, invocations, pipeline_response,
                   eval_results, eval_raised>>
    /\ UNCHANGED <<chunk_vars, search_vars, llm_vars, pipe_vars>>

NextEval ==
    \/ QueryPipeline
    \/ QueryPipelineRaises
    \/ ScoreAnswer
    \/ Aggregate

SpecEval == InitEval /\ [][NextEval]_vars

----------------------------------------------------------------------------
(* Properties of the chunker *)

Stride == chunk_size - chunk_overlap

\* the window examined at offset s is whitespace-only (or empty)
BlankWindow(s) == Strip(Slice(text, s, s + chunk_size)) = <<>>

CharsDone == pc = "done" /\ strategy = "characters"

\* C1: chunk_by_characters terminates for every non-empty text and every
\* chunk_size/chunk_overlap pair, chunk_overlap >= chunk_size included.
\* A run that leaves the bounds (pc = "capped") is not counted against the
\* claim: what refutes it is a loop that comes back to a state it was in.
C1_Terminates ==
    (strategy = "characters" /\ text # <<>>) => <>(pc \in {"done", "capped"})

\* C2: chunk_by_characters("abcdefghij", 4, 1) returns exactly the three
\* chunks "abcd" (0,4), "defg" (3,7), "ghij" (6,10) with indices 0, 1, 2.
C2_ThreeChunks ==
    (CharsDone /\ text = Abcdefghij /\ chunk_size = 4 /\ chunk_overlap = 1)
    => result = << Chunk(<<"a", "b", "c", "d">>, 0, 0, 4, 4),
                   Chunk(<<"d", "e", "f", "g">>, 1, 3, 7, 4),
                   Chunk(<<"g", "h", "i", "j">>, 2, 6, 10, 4) >>

\* C3 as stated: with chunk_overlap < chunk_size, consecutive chunks'
\* start_char values differ by exactly chunk_size - chunk_overlap.
C3_ExactStride ==
    (CharsDone /\ chunk_overlap < chunk_size)
    => \A i \in 1..(Len(result) - 1) :
          result[i + 1].start_char - result[i].start_char = Stride

\* C3 (amended): with chunk_overlap < chunk_size, consecutive chunks'
\* start_char values differ by k * (chunk_size - chunk_overlap) for some
\* k >= 1, where the k - 1 windows between them are whitespace-only; the
\* difference is exactly chunk_size - chunk_overlap when no window was skipped
\* between the two chunks.
C3_StrideMultiple ==
    (CharsDone /\ chunk_overlap < chunk_size)
    => \A i \in 1..(Len(result) - 1) :
          \E k \in 1..Len(text) :
             /\ result[i + 1].start_char - result[i].start_char = k * Stride
             /\ \A j \in 1..(k - 1) :
                   BlankWindow(result[i].start_char + j * Stride)

\* Two consecutive chunks with a skipped window between them, and two with
\* none.
C3_Witness ==
    /\ CharsDone /\ chunk_overlap < chunk_size
    /\ Len(result) >= 3
    /\ \E i \in 1..(Len(result) - 1) :
          result[i + 1].start_char - result[i].start_char > Stride
    /\ \E i \in 1..(Len(result) - 1) :
          result[i + 1].start_char - result[i].start_char = Stride

\* C4 as stated: for a non-empty text with no sentence boundary,
\* chunk_by_sentences returns what chunk_by_characters returns.
C4_FallbackNoBoundary ==
    (pc = "done" /\ strategy = "sentences" /\ text # <<>> /\ ~HasBoundary(text))
    => Returns(result) = chunk_by_characters(text, chunk_size, chunk_overlap)

\* C4 (amended): chunk_by_sentences falls back to the character strategy
\* exactly when the non-empty text yields no sentence, that is when it is
\* whitespace-only; for every such text it returns what chunk_by_characters
\* returns.  A text with a non-whitespace character and no sentence boundary
\* is not handed to the character strategy: it is one sentence and comes back
\* as one chunk holding the trimmed text.
C4_FallbackNoSentence ==
    (strategy = "sentences" /\ text # <<>>)
    => /\ pc \in {"chunk_by_characters", "char_loop", "char_body", "capped"}
             => AllWhitespace(text)
       /\ pc = "sent_loop" => ~AllWhitespace(text)
       /\ (pc = "done" /\ AllWhitespace(text))
             => Returns(result)
                   = chunk_by_characters(text, chunk_size, chunk_overlap)
       /\ (pc = "done" /\ ~AllWhitespace(text) /\ ~HasBoundary(text))
             => /\ Len(result) = 1
                /\ result[1].text = Strip(text)

\* The fallback has run to its return on a whitespace-only text.
C4_Witness ==
    /\ pc = "done" /\ strategy = "sentences"
    /\ Len(text) >= 2 /\ AllWhitespace(text)
    /\ chunk_overlap < chunk_size
    /\ result = <<>>

\* C5: the chunk_index values of the returned sequence are 0, 1, ..., n-1
\* in sequence order, for both strategies; a skipped whitespace-only window
\* does not consume an index.
C5_IndexContiguous ==
    pc = "done" => \A i \in 1..Len(result) : result[i].chunk_index = i - 1

\* The character strategy has skipped a window and emitted a chunk after it.
C5_Witness ==
    /\ CharsDone /\ chunk_overlap < chunk_size
    /\ Len(result) = 2
    /\ result[2].start_char - result[1].start_char = 2 * Stride
    /\ result[2].chunk_index = 1

\* C6: with 0 <= chunk_overlap < chunk_size no non-whitespace character is
\* lost: every position holding one lies in the window of an emitted chunk,
\* whose text holds the character at offset p - start_char.
C6_NoCharacterLost ==
    (CharsDone /\ text # <<>> /\ 0 <= chunk_overlap /\ chunk_overlap < chunk_size)
    => \A p \in 1..Len(text) :
          text[p] \notin Whitespace
          => \E i \in 1..Len(result) :
                /\ result[i].start_char <= p - 1
                /\ p - 1 < result[i].end_char
                /\ p - result[i].start_char <= Len(result[i].text)
                /\ result[i].text[p - result[i].start_char] = text[p]

\* A whitespace-only window was skipped and a later window was emitted.
C6_Witness ==
    /\ CharsDone /\ 0 <= chunk_overlap /\ chunk_overlap < chunk_size
    /\ \E s \in 0..(Len(text) - 1) :
          /\ s % Stride = 0
          /\ BlankWindow(s)
          /\ \E i \in 1..Len(result) : result[i].start_char > s

\* C7: chunk_text("", ...) returns the empty sequence and raises no error,
\* for every strategy name and every chunk_size/chunk_overlap.
C7_EmptyText ==
    text = <<>>
    => /\ pc \in {"chunk_text", "chunk_by_characters", "chunk_by_sentences",
                  "done"}
       /\ result = <<>>

\* The call on the empty text has returned, under an unknown strategy name.
C7_Witness ==
    /\ text = <<>> /\ pc = "done" /\ result = <<>>
    /\ strategy = "paragraphs" /\ chunk_overlap >= chunk_size

\* C8: chunk_text with a strategy name other than "characters" or "sentences"
\* does not fail and returns exactly what chunk_by_sentences returns for the
\* same arguments.
C8_UnknownStrategy ==
    strategy \notin {"characters", "sentences"}
    => /\ pc \in {"chunk_text", "chunk_by_characters", "chunk_by_sentences",
                  "char_loop", "char_body", "sent_loop", "capped", "done"}
       /\ pc = "done"
             => Returns(result)
                   = chunk_by_sentences(text, chunk_size, chunk_overlap)
       /\ pc = "capped"
             => chunk_by_sentences(text, chunk_size, chunk_overlap) = NoReturn

\* An unknown strategy name has produced the sentence strategy's chunks,
\* which are not the character strategy's.
C8_Witness ==
    /\ pc = "done" /\ strategy = "paragraphs" /\ warned
    /\ Len(result) >= 2
    /\ chunk_overlap < chunk_size
    /\ Returns(result) # chunk_by_characters(text, chunk_size, chunk_overlap)

----------------------------------------------------------------------------
(* Properties of VectorStore.search *)

\* the identifiers of a list, as a set
IdSet(ids) == {ids[k] : k \in 1..Len(ids)}

\* C9: search with enabled_datasets = [] returns the empty sequence and never
\* queries the index, for every top_k and min_score; enabled_datasets = None
\* does query the index.
C9_EmptyScopeNoQuery ==
    /\ (~enabled_datasets.is_none /\ enabled_datasets.ids = <<>>)
          => /\ query_calls = <<>>
             /\ spc \in {"search", "done"}
             /\ search_result = <<>>
    /\ (enabled_datasets.is_none /\ spc \in {"process", "done"})
          => Len(query_calls) = 1

\* search([]) has returned on an index that holds a document no min_score
\* filter would drop.
C9_Witness ==
    /\ spc = "done"
    /\ ~enabled_datasets.is_none /\ enabled_datasets.ids = <<>>
    /\ search_result = <<>>
    /\ \E i \in 1..Len(collection) :
          Similarity(collection[i].distance) >= min_score

\* C10: the filter passed to the index follows the scope: one identifier gives
\* an equality filter on it, two or more a membership filter on exactly those,
\* None no filter; in every case the index is asked for top_k neighbours (and
\* every candidate it returns belongs to the scope).
C10_FilterFollowsScope ==
    (spc \in {"process", "done"}
     /\ (enabled_datasets.is_none \/ enabled_datasets.ids # <<>>))
    => /\ Len(query_calls) = 1
       /\ query_calls[1].n_results = top_k
       /\ enabled_datasets.is_none
             => query_calls[1].where = [op |-> "none", ids |-> <<>>]
       /\ (~enabled_datasets.is_none /\ Len(enabled_datasets.ids) = 1)
             => query_calls[1].where
                   = [op |-> "eq", ids |-> <<enabled_datasets.ids[1]>>]
       /\ (~enabled_datasets.is_none /\ Len(enabled_datasets.ids) >= 2)
             => query_calls[1].where
                   = [op |-> "in", ids |-> enabled_datasets.ids]
       /\ ~enabled_datasets.is_none
             => \A i \in 1..Len(results) :
                   results[i].metadata.dataset_id
                      \in IdSet(enabled_datasets.ids)

\* A search scoped to two distinct datasets has returned documents of both
\* while the index also holds a document of a third.
C10_Witness ==
    /\ spc = "done"
    /\ ~enabled_datasets.is_none
    /\ Cardinality(IdSet(enabled_datasets.ids)) = 2
    /\ query_calls[1].where.op = "in"
    /\ Len(search_result) = 2
    /\ search_result[1].metadata.dataset_id
          # search_result[2].metadata.dataset_id
    /\ \E i \in 1..Len(collection) :
          collection[i].metadata.dataset_id
             \notin IdSet(enabled_datasets.ids)

\* search has queried the index and returned
SearchDone == spc = "done" /\ Len(query_calls) = 1

\* the candidates of the index whose similarity is at least m
Survivors(m) ==
    {i \in 1..Len(results) : Similarity(results[i].distance) >= m}

\* C11: search returns exactly the index candidates whose similarity is
\* >= min_score: none below it is returned, one equal to it is kept, and for
\* the same index output a higher min_score never gives more results.
C11_MinScoreFilter ==
    SearchDone
    => /\ \A j \in 1..Len(search_result) : search_result[j].score >= min_score
       /\ \A i \in 1..Len(results) :
             (Similarity(results[i].distance) >= min_score)
             <=> (\E j \in 1..Len(search_result) :
                     search_result[j].id = results[i].id)
       /\ Len(search_result) = Cardinality(Survivors(min_score))
       /\ \A m \in MinScores :
             m >= min_score => Cardinality(Survivors(m)) <= Len(search_result)

\* Of two candidates the one whose similarity equals min_score was kept and
\* the one below it was dropped.
C11_Witness ==
    /\ SearchDone
    /\ Len(results) = 2
    /\ Len(search_result) = 1
    /\ min_score = 100
    /\ search_result[1].score = min_score

\* position in the index's candidate list of the j-th returned result
CandidatePos(j) ==
    CHOOSE i \in 1..Len(results) : results[i].id = search_result[j].id

\* C12: the returned sequence is an order-preserving subsequence of the
\* index's candidate list (nothing re-sorted, nothing duplicated, id, text and
\* metadata copied unchanged), so it holds at most top_k results.
C12_OrderPreserved ==
    SearchDone
    => /\ \A j \in 1..Len(search_result) :
             \E i \in 1..Len(results) :
                /\ results[i].id = search_result[j].id
                /\ results[i].text = search_result[j].text
                /\ results[i].metadata = search_result[j].metadata
       /\ \A j, k \in 1..Len(search_result) :
             j < k => CandidatePos(j) < CandidatePos(k)
       /\ Len(results) <= top_k
       /\ Len(search_result) <= top_k

\* Two results came back in the index's rank order, which is not the order
\* in which the documents were added, with a third document cut by top_k.
C12_Witness ==
    /\ SearchDone
    /\ Len(collection) = 3
    /\ Len(search_result) = 2
    /\ search_result[1].id = "d3"
    /\ search_result[2].id = "d1"
    /\ search_result[1].score > search_result[2].score

\* distance the index reported for the j-th returned result
ReportedDistance(j) == results[CandidatePos(j)].distance

\* C13: the score of every returned result is 1 - d*d/2 (in units of 1/200:
\* 200 - d*d with d in tenths) for the distance d the index reported; for d in
\* [0, 2] it lies in [-1, 1], and d = 0 gives exactly 1.
C13_ScoreFromDistance ==
    SearchDone
    => \A j \in 1..Len(search_result) :
          /\ search_result[j].score
                = 200 - ReportedDistance(j) * ReportedDistance(j)
          /\ search_result[j].score >= -200
          /\ search_result[j].score <= 200
          /\ ReportedDistance(j) = 0 => search_result[j].score = 200

\* A result at distance 0 and one at distance 2 were both returned.
C13_Witness ==
    /\ SearchDone
    /\ Len(search_result) = 2
    /\ ReportedDistance(1) = 0
    /\ search_result[1].score = 200
    /\ ReportedDistance(2) = 20
    /\ search_result[2].score = -200

----------------------------------------------------------------------------
(* Properties of LLMClient *)

\* C20: the cost never fails on the model identifier: a model that is not in
\* the price table costs what "gpt-4o" costs for the same token counts
\* ($2.50 and $10.00 per 1M tokens: 50 and 200 units), and every model costs
\* prompt_tokens * input_price / 1M + completion_tokens * output_price / 1M.
C20_CostFallsBackToDefault ==
    lpc = "returned"
    => /\ model \notin DOMAIN TOKEN_PRICING
             => llm_response.cost
                   = llm_response.prompt_tokens * 50
                     + llm_response.completion_tokens * 200
       /\ model \in DOMAIN TOKEN_PRICING
             => llm_response.cost
                   = llm_response.prompt_tokens * TOKEN_PRICING[model].input
                     + llm_response.completion_tokens
                          * TOKEN_PRICING[model].output
       /\ llm_response.prompt_tokens = api_response.prompt_tokens
       /\ llm_response.completion_tokens = api_response.completion_tokens

\* generate has returned the cost of an unpriced model for non-zero token
\* counts.
C20_Witness ==
    /\ lpc = "returned"
    /\ model = "unknown-model"
    /\ llm_response.prompt_tokens = 120
    /\ llm_response.completion_tokens = 500
    /\ llm_response.cost = 106000

----------------------------------------------------------------------------
(* Properties of RAGPipeline.query *)

\* The collaborator c has been invoked by the query.
Called(c) == \E i \in 1..Len(calls) : calls[i] = c

\* The identifiers of the rows marked enabled.
EnabledIn(rows) == {rows[i].id : i \in {j \in 1..Len(rows) : rows[j].enabled}}

\* C14: when enabled_datasets is None the scope passed to the search is
\* exactly the identifiers of the datasets marked enabled in the registry
\* (each once); when a list is given, the empty list included, the registry
\* is not consulted and the list is passed to the search unchanged.
C14_ScopeResolution ==
    /\ ~q_enabled_datasets.is_none => ~Called("registry")
    /\ Called("search") =>
          IF q_enabled_datasets.is_none
          THEN /\ ~enabled_datasets.is_none
               /\ IdSet(enabled_datasets.ids) = EnabledIn(all_datasets)
               /\ Len(enabled_datasets.ids)
                     = Cardinality(EnabledIn(all_datasets))
               /\ registry_ops = 0 => all_datasets = registry
          ELSE enabled_datasets = q_enabled_datasets

C14_Witness ==
    /\ q_enabled_datasets.is_none
    /\ Called("search")
    /\ Len(all_datasets) = 2
    /\ enabled_datasets = Some(<<"ds2">>)

\* The collaborators of a query in the order the code calls them.
Providers == <<"embed", "search", "generate">>

StepNames == <<"embedding", "retrieval", "llm_generation">>

\* The calls to the three providers, the registry read left out.
ProviderCalls == SelectSeq(calls, LAMBDA c : c # "registry")

\* C15: the embedding provider, the search and the generation provider are
\* invoked one after another in that order, each at most once; a trace step
\* is appended only after its own call has returned; a query that returns
\* has the steps embedding, retrieval, llm_generation and no other.
C15_SequentialSteps ==
    /\ Len(ProviderCalls) <= 3
    /\ ProviderCalls = SubSeq(Providers, 1, Len(ProviderCalls))
    /\ Len(query_calls) <= 1
    /\ Len(api_calls) <= 1
    /\ spc \in {"search", "process"} =>
          ppc = "searching" /\ lpc = "idle" /\ ProviderCalls[Len(ProviderCalls)] = "search"
    /\ lpc \in {"generate", "created"} =>
          ppc = "generating" /\ spc = "done"
    /\ Len(steps) <= Len(ProviderCalls)
    /\ \A i \in 1..Len(steps) : steps[i].name = StepNames[i]
    /\ Len(steps) >= 1 => raised # "embed"
    /\ Len(steps) >= 2 => spc = "done"
    /\ Len(steps) >= 3 => lpc = "returned"
    /\ response.returned =>
          /\ Len(response.steps) = 3
          /\ \A i \in 1..3 : response.steps[i].name = StepNames[i]

C15_Witness ==
    /\ response.returned
    /\ Len(response.steps) = 3
    /\ response.steps[2].details.chunks_found = 2
    /\ calls = <<"registry", "embed", "search", "generate">>

\* C16: when the registry read, the embedding call, the index search or the
\* generation call fails, the failure leaves query: nothing is returned (no
\* answer, no partial steps), the failed call is not made again and no later
\* provider is invoked.
C16_AllOrNothing ==
    /\ (raised # "" \/ spc = "raised" \/ lpc = "raised") =>
          /\ ~response.returned
          /\ response.answer = "" /\ response.steps = <<>>
          /\ ppc \in {"searching", "generating", "raised"}
    /\ raised = "registry" => calls = <<"registry">>
    /\ raised = "embed" => ProviderCalls = <<"embed">>
    /\ spc = "raised" =>
          /\ ProviderCalls = <<"embed", "search">>
          /\ Len(query_calls) = 1
          /\ lpc = "idle"
          /\ ppc = "raised" => raised = "search"
    /\ lpc = "raised" =>
          /\ ProviderCalls = Providers
          /\ Len(api_calls) = 1
          /\ ppc = "raised" => raised = "generate"
    /\ ppc = "raised" => raised # ""

C16_Witness ==
    /\ raised = "generate"
    /\ lpc = "raised"
    /\ Len(steps) = 2
    /\ ~response.returned

\* C17: a query with enabled_datasets = None reads the registry exactly
\* once, before the embedding call; whatever dataset is created, enabled,
\* disabled or deleted after that read, the scope passed to the search and
\* the scope recorded in the retrieval step are those of that one read.
C17_RegistrySnapshot ==
    /\ [](/\ (q_enabled_datasets.is_none /\ ppc # "query") =>
                /\ Len(SelectSeq(calls, LAMBDA c : c = "registry")) = 1
                /\ calls[1] = "registry"
          /\ (q_enabled_datasets.is_none /\ Called("search")) =>
                enabled_datasets = Some(EnabledIds(all_datasets))
          /\ (q_enabled_datasets.is_none /\ Len(steps) >= 2) =>
                steps[2].details.request.enabled_datasets
                   = TraceScope(EnabledIds(all_datasets)))
    /\ [][ppc # "query" => all_datasets' = all_datasets /\ scope' = scope]_vars

C17_Witness ==
    /\ q_enabled_datasets.is_none
    /\ ppc = "returned"
    /\ registry_ops > 0
    /\ scope = Some(<<"ds1">>)
    /\ EnabledIds(registry) = <<"ds2", "ds1">>
    /\ enabled_datasets = scope
    /\ response.steps[2].details.request.enabled_datasets
          = [all |-> FALSE, ids |-> <<"ds1">>]

\* C18: the request recorded in the retrieval step holds the parameters
\* that were passed to VectorStore.search: the same top_k, the same
\* min_score and the same list of dataset identifiers, the empty list
\* included.
C18_TraceRecordsRequest ==
    Len(steps) >= 2 =>
        /\ steps[2].details.request.top_k = top_k
        /\ steps[2].details.request.min_score = min_score
        /\ steps[2].details.request.enabled_datasets
              = [all |-> FALSE, ids |-> enabled_datasets.ids]

\* The prompt of the query has been built.
PromptBuilt == full_prompt.user_query = QueryText

\* The context put into the prompt.
Context == full_prompt.retrieved_chunks

\* C19: the context of the prompt is the sentinel "No relevant context
\* found." exactly when no chunk was retrieved; otherwise it holds one
\* labeled block per retrieved chunk, in the rank order of the search,
\* numbered 1..n, none left out or repeated, with a blank line between
\* two blocks.
C19_ContextBlocks ==
    PromptBuilt =>
        LET n == Len(retrieved_chunks) IN
        /\ (Context = <<Sentinel>>) <=> (n = 0)
        /\ (\E i \in 1..Len(Context) : Context[i] = Sentinel) <=> (n = 0)
        /\ n > 0 =>
              /\ Len(Context) = 2 * n - 1
              /\ \A i \in 1..n :
                    /\ Context[2 * i - 1].kind = "[Source"
                    /\ Context[2 * i - 1].rank = i
                    /\ Context[2 * i - 1].text = retrieved_chunks[i].text
                    /\ Context[2 * i - 1].source
                          = SourceTitle(retrieved_chunks[i].metadata)
                    /\ Context[2 * i - 1].relevance * 2
                          = retrieved_chunks[i].score
              /\ \A i \in 1..(n - 1) : Context[2 * i] = BlankLine

C19_Witness ==
    /\ PromptBuilt
    /\ Len(retrieved_chunks) = 2
    /\ Context[1].rank = 1
    /\ Context[1].text = <<"text", "d2">>
    /\ Context[1].source = "Unknown"
    /\ Context[1].relevance = 100
    /\ Context[3].rank = 2
    /\ Context[3].text = <<"text", "d1">>
    /\ Context[3].source = "fables.txt"
    /\ Context[3].relevance = 50

----------------------------------------------------------------------------
(* Properties of EvaluationService.evaluate_batch *)

\* Two characters are the same letter, whatever their case.
SameLetter(a, b) ==
    \/ a = b
    \/ {a, b} \in {{"a", "A"}, {"b", "B"}, {"q", "Q"}}

\* kw occurs in str as a substring, case ignored.
Occurs(kw, str) ==
    \E off \in 0..(Len(str) - Len(kw)) :
        \A j \in 1..Len(kw) : SameLetter(str[off + j], kw[j])

\* found is the sub-list of expected made of the entries at the positions
\* hits, in their original order.
SubListAt(found, expected, hits) ==
    /\ Len(found) = Cardinality(hits)
    /\ \E f \in [1..Len(found) -> hits] :
          /\ \A a, b \in 1..Len(found) : a < b => f[a] < f[b]
          /\ \A i \in 1..Len(found) : found[i] = expected[f[i]]

\* C21: for each test question keywords_found is the sub-list, in original
\* order, of the expected keywords that occur in the answer as a substring,
\* case ignored; keyword_coverage is |keywords_found| / |expected_keywords|,
\* 0 when there is no expected keyword, and lies in [0, 1]; the answer "the
\* quick brown fox" with ["quick", "slow"] gives ["quick"] and 0.5.
C21_KeywordCoverage ==
    \A i \in 1..Len(eval_results) :
        LET r == eval_results[i]
            expected == test_questions[i].expected_keywords
            hits == {j \in 1..Len(expected) : Occurs(expected[j], r.answer)}
        IN /\ r.expected_keywords = expected
           /\ SubListAt(r.keywords_found, expected, hits)
           /\ IF expected = <<>>
              THEN r.keyword_coverage = 0
              ELSE r.keyword_coverage * Len(expected)
                      = Len(r.keywords_found) * CoverageUnit
           /\ 0 <= r.keyword_coverage
           /\ r.keyword_coverage <= CoverageUnit
           /\ (r.answer = Fox /\ expected = <<Quick, Slow>>) =>
                 /\ r.keywords_found = <<Quick>>
                 /\ 2 * r.keyword_coverage = CoverageUnit

C21_Witness ==
    /\ Len(eval_results) = 2
    /\ eval_results[1].answer = Fox
    /\ eval_results[1].expected_keywords = <<Quick, Slow>>
    /\ eval_results[1].keywords_found = <<Quick>>
    /\ eval_results[2].answer = QuickAb
    /\ eval_results[2].expected_keywords = <<Ab, Quick>>
    /\ eval_results[2].keywords_found = <<Ab, Quick>>

\* The sum of the field of the first n results.
RECURSIVE CoverageTotal(_)
CoverageTotal(n) ==
    IF n = 0 THEN 0
    ELSE CoverageTotal(n - 1) + batch.results[n].keyword_coverage

RECURSIVE LatencyTotal(_)
LatencyTotal(n) ==
    IF n = 0 THEN 0
    ELSE LatencyTotal(n - 1) + batch.results[n].total_latency_ms

\* C22: evaluate_batch returns one result per test question, in question
\* order, total_questions being their number; avg_keyword_coverage and
\* avg_latency_ms are the arithmetic means of the results' keyword_coverage
\* and total_latency_ms; for no question both are 0 and the pipeline is
\* never invoked.
C22_BatchAggregates ==
    batch.returned =>
        LET n == Len(batch.results) IN
        /\ n = Len(test_questions)
        /\ batch.total_questions = n
        /\ \A i \in 1..n :
              batch.results[i].question = test_questions[i].question
        /\ batch.avg_keyword_coverage * n = CoverageTotal(n) * MeanUnit
        /\ batch.avg_latency_ms * n = LatencyTotal(n) * MeanUnit
        /\ n = 0 =>
              /\ batch.avg_keyword_coverage = 0
              /\ batch.avg_latency_ms = 0
              /\ invocations = <<>>

C22_Witness ==
    /\ batch.returned
    /\ Len(batch.results) = 2
    /\ batch.results[1].total_latency_ms = 10
    /\ batch.results[2].total_latency_ms = 25
    /\ batch.results[1].keywords_found = <<Quick>>
    /\ batch.results[1].expected_keywords = <<Quick, Slow>>
    /\ batch.results[2].keywords_found = <<Ab, Quick>>
    /\ 2 * batch.avg_latency_ms = 35 * MeanUnit
    /\ 4 * batch.avg_keyword_coverage = 3 * CoverageUnit * MeanUnit

\* C23: when the pipeline fails on the i-th question, the failure leaves
\* evaluate_batch: no batch result is returned, the results of the
\* questions before i included, and the pipeline is invoked for no question
\* after i.
C23_BatchFailure ==
    /\ Len(invocations) <= Len(test_questions)
    /\ \A i \in 1..Len(invocations) :
          invocations[i] = test_questions[i].question
    /\ eval_raised =>
          /\ epc = "raised"
          /\ ~batch.returned
          /\ batch.results = <<>>
          /\ Len(invocations) = Len(eval_results) + 1

C23_Witness ==
    /\ eval_raised
    /\ Len(test_questions) = 3
    /\ Len(invocations) = 2
    /\ Len(eval_results) = 1
    /\ ~batch.returned

----------------------------------------------------------------------------
(* Properties of chunk_by_sentences *)

\* The for loop is about to place sentences[sent_i].
PlacingSentence == pc = "sent_loop" /\ sent_i <= Len(sentences)

\* C24: a chunk is closed before a sentence is placed exactly when the
\* buffer is non-empty and len(buffer) + 1 + len(sentence) > chunk_size;
\* when the sum equals chunk_size the sentence is appended to the buffer; a
\* sentence arriving at an empty buffer is accepted, however long.
C24_CloseBeforeAppend ==
    [][PlacingSentence =>
          LET sentence == sentences[sent_i]
              sum == Len(current_chunk) + 1 + Len(sentence)
          IN /\ Len(chunks') \in {Len(chunks), Len(chunks) + 1}
             /\ (Len(chunks') = Len(chunks) + 1)
                   <=> (current_chunk # <<>> /\ sum > chunk_size)
             /\ (current_chunk # <<>> /\ sum = chunk_size) =>
                   /\ chunks' = chunks
                   /\ current_chunk' = current_chunk \o <<" ">> \o sentence
             /\ current_chunk = <<>> =>
                   /\ chunks' = chunks
                   /\ current_chunk' = sentence]_vars

C24_Witness ==
    /\ pc = "sent_loop"
    /\ sent_i = 3
    /\ chunks = <<>>
    /\ current_chunk = <<"a", ".", " ", "b", ".">>
    /\ Len(current_chunk) = chunk_size

\* The last n characters of str.
Trailing(str, n) == SubSeq(str, Len(str) - n + 1, Len(str))

\* C25: when a chunk is closed, the next buffer is the trailing
\* chunk_overlap characters of the closed buffer, a space and the next
\* sentence if chunk_overlap > 0 and the closed buffer is longer than
\* chunk_overlap; otherwise it is the next sentence alone.  Either way the
\* next sentence is placed whole.
C25_OverlapSeed ==
    [][(PlacingSentence /\ Len(chunks') = Len(chunks) + 1) =>
          LET sentence == sentences[sent_i] IN
          /\ IF chunk_overlap > 0 /\ Len(current_chunk) > chunk_overlap
             THEN current_chunk'
                     = Trailing(current_chunk, chunk_overlap)
                          \o <<" ">> \o sentence
             ELSE current_chunk' = sentence
          /\ Len(current_chunk') >= Len(sentence)
          /\ Trailing(current_chunk', Len(sentence)) = sentence]_vars

C25_Witness ==
    /\ pc = "sent_loop"
    /\ chunk_overlap = 1
    /\ Len(chunks) = 1
    /\ chunks[1].text = <<"a", ".">>
    /\ current_chunk = <<".", " ", "b", ".">>

\* chunk_by_sentences has returned.
SentencesDone == pc = "done" /\ Dispatch(strategy) = "chunk_by_sentences"

\* C26: when every sentence of the text is at most chunk_size characters
\* long and 0 <= chunk_overlap < chunk_size, every chunk chunk_by_sentences
\* returns has char_count <= chunk_size.
C26_WithinChunkSize ==
    (/\ SentencesDone
     /\ \A i \in 1..Len(SplitSentences(text)) :
           Len(SplitSentences(text)[i]) <= chunk_size
     /\ 0 <= chunk_overlap
     /\ chunk_overlap < chunk_size)
    => \A i \in 1..Len(result) : result[i].char_count <= chunk_size

\* " ".join(strs)
RECURSIVE JoinWithSpaces(_)
JoinWithSpaces(strs) ==
    IF strs = <<>> THEN <<>>
    ELSE IF Len(strs) = 1 THEN Head(strs)
    ELSE Head(strs) \o <<" ">> \o JoinWithSpaces(Tail(strs))

\* The texts of the returned chunks, in order.
ResultTexts == [i \in 1..Len(result) |-> result[i].text]

\* C27: with chunk_overlap = 0 the chunk texts joined in order with single
\* spaces are the text's trimmed non-empty sentences joined in order with
\* single spaces, and the buffer left after the last sentence is the last
\* chunk, whatever its size.
C27_NothingLostWithoutOverlap ==
    (SentencesDone /\ chunk_overlap = 0) =>
        /\ JoinWithSpaces(ResultTexts) = JoinWithSpaces(SplitSentences(text))
        /\ SplitSentences(text) # <<>> =>
              /\ result # <<>>
              /\ current_chunk # <<>>
              /\ result[Len(result)].text = current_chunk

C27_Witness ==
    /\ SentencesDone
    /\ chunk_overlap = 0
    /\ chunk_size = 4
    /\ text = <<"a", ".", " ", " ", "b", "b", ".", " ", "a", ".", " ", "b">>
    /\ ResultTexts = <<<<"a", ".">>, <<"b", "b", ".">>,
                       <<"a", ".", " ", "b">>>>

----------------------------------------------------------------------------
(* More properties of RAGPipeline.query *)

\* The document of the index holding this text belongs to the scope.
FromScope(block_text) ==
    \E k \in 1..Len(collection) :
        /\ collection[k].text = block_text
        /\ collection[k].metadata.dataset_id \in IdSet(scope.ids)

\* C28: query never issues an unscoped index query: once resolved, the
\* scope is a list; for the empty list the index is not queried, otherwise
\* it is queried with a filter on exactly the resolved identifiers; every
\* chunk of the retrieval step and of the prompt belongs to a dataset of
\* the scope.
C28_ScopedQueryOnly ==
    (ppc # "query" /\ raised # "registry") =>
        /\ ~scope.is_none
        /\ Called("search") => enabled_datasets = scope
        /\ scope.ids = <<>> => query_calls = <<>>
        /\ \A i \in 1..Len(query_calls) :
              /\ query_calls[i].where.op \in {"eq", "in"}
              /\ query_calls[i].where.ids = scope.ids
        /\ \A i \in 1..Len(retrieved_chunks) :
              retrieved_chunks[i].metadata.dataset_id \in IdSet(scope.ids)
        /\ Len(steps) >= 2 =>
              \A i \in 1..Len(steps[2].details.chunks) :
                  steps[2].details.chunks[i].metadata.dataset_id
                     \in IdSet(scope.ids)
        /\ PromptBuilt =>
              \A i \in 1..Len(Context) :
                  Context[i].kind = "[Source" => FromScope(Context[i].text)

C28_Witness ==
    /\ PromptBuilt
    /\ scope = Some(<<"ds2">>)
    /\ Len(collection) = 2
    /\ collection[1].metadata.dataset_id = "ds3"
    /\ Len(query_calls) = 1
    /\ q_top_k = 2
    /\ Len(retrieved_chunks) = 1
    /\ Len(Context) = 1
    /\ Context[1].text = <<"text", "d2">>

----------------------------------------------------------------------------
(* More properties of chunk_by_characters *)

\* C29: every chunk chunk_by_characters returns describes a span of the
\* text: 0 <= start_char < end_char <= len(text), its text is the input
\* sliced at [start_char, end_char) and char_count = end_char - start_char.
\* It is stated here for 0 <= chunk_overlap < chunk_size only, where the
\* loop is known to end; the claim makes no exception.
C29_RealSpan ==
    (CharsDone /\ 0 <= chunk_overlap /\ chunk_overlap < chunk_size) =>
        \A i \in 1..Len(result) :
            /\ 0 <= result[i].start_char
            /\ result[i].start_char < result[i].end_char
            /\ result[i].end_char <= Len(text)
            /\ result[i].text
                  = Slice(text, result[i].start_char, result[i].end_char)
            /\ result[i].char_count
                  = result[i].end_char - result[i].start_char

\* chunk_by_characters is called with chunk_size >= 1 and
\* 0 <= chunk_overlap < chunk_size.
ValidWindows ==
    /\ strategy = "characters"
    /\ chunk_size >= 1
    /\ 0 <= chunk_overlap
    /\ chunk_overlap < chunk_size

\* ceil(a / b) for a >= 0, b >= 1
CeilDiv(a, b) == (a + b - 1) \div b

\* The windows examined so far: the loop starts at 0 and every iteration
\* moves start by the stride.
WindowsExamined == start \div Stride

\* C30: for chunk_size >= 1 and 0 <= chunk_overlap < chunk_size
\* chunk_by_characters terminates on every text; every iteration moves the
\* window start forward by chunk_size - chunk_overlap, so that at most
\* ceil(len(text) / (chunk_size - chunk_overlap)) windows are examined and
\* at most that many chunks returned.
C30_BoundedWindows ==
    /\ ValidWindows => <>(pc = "done")
    /\ [][(ValidWindows /\ pc = "char_body") => start' = start + Stride]_vars
    /\ [](ValidWindows =>
             /\ pc # "capped"
             /\ start >= 0
             /\ start % Stride = 0
             /\ WindowsExamined <= CeilDiv(Len(text), Stride)
             /\ pc = "char_body" =>
                   WindowsExamined + 1 <= CeilDiv(Len(text), Stride)
             /\ Len(chunks) <= WindowsExamined
             /\ pc = "done" =>
                   /\ result = chunks
                   /\ Len(result) <= CeilDiv(Len(text), Stride))

C30_Witness ==
    /\ ValidWindows
    /\ pc = "done"
    /\ text = Abcdefghij
    /\ Stride = 3
    /\ WindowsExamined = 4
    /\ Len(result) = 4

====
